---- MODULE Spec2Model ----
(***************************************************************************)
(* State-machine model of the GpuScan task pipeline of PG-Strom            *)
(* (src/src/gpuscan.c): the Task object, the stream orchestrator           *)
(* (__pgstrom_process_gpuscan), the completion callback                    *)
(* (pgstrom_respond_gpuscan), completion processing and release, and the   *)
(* host loop / teardown of the GpuTaskState that drives them.              *)
(*                                                                         *)
(* The host loop, the teardown and the CUDA_EVENT_* macros live in         *)
(* cuda_control.c / pg_strom.h, which are not part of src/; those          *)
(* definitions are modelled from the design document.                      *)
(***************************************************************************)
EXTENDS Integers, Sequences, FiniteSets, TLC

(* ---- bounds ---------------------------------------------------------- *)
MaxTasks == 2
MaxCalls == 2
MaxBlocks == 2        \* blocks of the scanned relation
MaxBlockRows == 1     \* visible rows a block can hold
MaxBudget == 2        \* rows a chunk can hold (pgstrom_chunk_size)
MaxRescans == 1
MaxEndCalls == 2      \* calls of gpuscan_next_chunk after the end of scan
MaxClauses == 3
MaxOptions == 2       \* options of a foreign table
MaxLength == 5        \* bytes in a control block or a chunk image

Tasks == 1 .. MaxTasks

(* ---- values ---------------------------------------------------------- *)
CUDA_SUCCESS == "CUDA_SUCCESS"
CUDA_ERROR_INVALID_CONTEXT == "CUDA_ERROR_INVALID_CONTEXT"
CUDA_ERROR_LAUNCH_FAILED == "CUDA_ERROR_LAUNCH_FAILED"
StromError_Success == "StromError_Success"
StromError_DataStoreNoSpace == "StromError_DataStoreNoSpace"

CUresults == {CUDA_SUCCESS, CUDA_ERROR_INVALID_CONTEXT, CUDA_ERROR_LAUNCH_FAILED}
KernErrors == {StromError_Success, StromError_DataStoreNoSpace}

EventNames == {"ev_dma_send_start", "ev_dma_send_stop",
               "ev_dma_recv_start", "ev_dma_recv_stop"}

VARIABLES
    gss,              \* GpuScanState configuration fixed at gpuscan_begin
    task,             \* Task id -> pgstrom_gpuscan object
    pending_tasks,    \* gts->pending_tasks (list of Task ids, head first)
    running_tasks,    \* gts->running_tasks
    completed_tasks,  \* gts->completed_tasks
    num_running_tasks,
    num_completed_tasks,
    lock,             \* holder of gts->lock: nobody, the host or a callback
    txn,              \* IsTransactionState()
    gts_mem,          \* memory of the GpuTaskState: "live" or "freed"
    hostpc,           \* position of the (single threaded) host backend
    host_task,        \* Task the host holds in hand, 0 if none
    launch,           \* return value of cb_task_process of host_task
    devmem,           \* device pointers handed out by gpuMemAlloc
    pfm_accum,        \* number of task perfmon records accumulated
    latch,            \* MyProc->procLatch is set
    fault,            \* memory faults that have happened
    hist,             \* history: what the execution has done so far
    calls,            \* release-harness: routines called so far
    scan,             \* the chunked scan: relation, block cursor, rows
    plan,             \* the planner: clauses in, CustomScan plan out
    calc              \* a sizing computation: its inputs and its result

vars == <<gss, task, pending_tasks, running_tasks, completed_tasks,
          num_running_tasks, num_completed_tasks, lock, txn, gts_mem,
          hostpc, host_task, launch, devmem, pfm_accum, latch, fault,
          hist, calls, scan, plan, calc>>

(* the holders of the spinlock gts->lock *)
LockFree == [by |-> "none", of |-> 0]
LockHost == [by |-> "host", of |-> 0]
LockCallback(t) == [by |-> "callback", of |-> t]

(* ---- helpers --------------------------------------------------------- *)
RECURSIVE SeqRemove(_, _)
SeqRemove(s, x) ==
    IF s = <<>> THEN <<>>
    ELSE IF Head(s) = x THEN SeqRemove(Tail(s), x)
    ELSE <<Head(s)>> \o SeqRemove(Tail(s), x)

SeqSet(s) == {s[i] : i \in 1 .. Len(s)}

SeqCount(s, x) == Cardinality({i \in 1 .. Len(s) : s[i] = x})

(* the pgstrom_gpuscan object before create_pgstrom_gpuscan_task *)
NoTask ==
    [mem |-> "none", chain |-> FALSE,
     pds_src |-> FALSE, pds_dst |-> FALSE,
     kern_exec_quals |-> FALSE, kern_dev_proj |-> FALSE,
     m_gpuscan |-> 0, m_kds_src |-> 0, m_kds_dst |-> 0,
     ev |-> {},
     kerror |-> StromError_Success, kern_kerror |-> StromError_Success,
     all_visible |-> FALSE,
     cmds |-> <<>>,
     cb |-> "none", status |-> "none",
     touch |-> {}, entered |-> 0, cb_dead |-> FALSE, cb_late |-> FALSE,
     observed |-> "none"]

(* gpuMemAlloc hands out one device pointer per Task *)
DevPtr(t) == 16 * t

(* GPUMEMALIGN(KERN_GPUSCAN_LENGTH(&gpuscan->kern)) *)
AlignedKernLength == 4
(* GPUMEMALIGN(KERN_DATA_STORE_LENGTH(pds_src->kds)) *)
AlignedSrcLength == 8

HasDst(g) == IF g.be_row_format THEN g.dev_projection ELSE TRUE

(* GPUMEMALIGN rounds a length up to the alignment of device memory *)
GpuMemAlignment == 4
GPUMEMALIGN(len) ==
    ((len + GpuMemAlignment - 1) \div GpuMemAlignment) * GpuMemAlignment

(* faulty variant: the allocation is sized without the output chunk *)
DeviceLayoutOmitsDst(base, kern_length, src_length, dst_length, has_dst) ==
    [length |-> GPUMEMALIGN(kern_length) + GPUMEMALIGN(src_length),
     m_gpuscan |-> base,
     m_kds_src |-> base + GPUMEMALIGN(kern_length),
     m_kds_dst |-> IF has_dst
                   THEN base + GPUMEMALIGN(kern_length)
                        + GPUMEMALIGN(src_length)
                   ELSE 0]

(* the length asked of gpuMemAlloc and the three device pointers derived  *)
(* from the address it returns                                            *)
DeviceLayout(base, kern_length, src_length, dst_length, has_dst) ==
    [length |-> GPUMEMALIGN(kern_length) + GPUMEMALIGN(src_length)
                + (IF has_dst THEN GPUMEMALIGN(dst_length) ELSE 0),
     m_gpuscan |-> base,
     m_kds_src |-> base + GPUMEMALIGN(kern_length),
     m_kds_dst |-> IF has_dst
                   THEN base + GPUMEMALIGN(kern_length)
                        + GPUMEMALIGN(src_length)
                   ELSE 0]

(* ---- create_pgstrom_gpuscan_task ------------------------------------- *)
CreateTask(g) ==
    [NoTask EXCEPT !.mem = "live",
                   !.pds_src = TRUE,
                   !.pds_dst = HasDst(g),
                   !.all_visible = ~g.dev_quals]

(* the configured maximum number of in-flight Tasks (K) *)
pgstrom_max_async_tasks == 2

(* the data path and the planner are idle in the lifecycle model *)
NoScan == [phase |-> "idle"]
NoPlan == [phase |-> "idle"]
NoCalc == [phase |-> "idle"]

(* the scans of the lifecycle model: a bare row-format scan, a scan with   *)
(* device projection and perfmon, which owns every kind of handle, and a  *)
(* bare scan limited to one in-flight Task                                *)
ScanConfigs ==
    {[be_row_format |-> TRUE, dev_projection |-> FALSE, dev_quals |-> TRUE,
      pfm_enabled |-> FALSE, max_async_tasks |-> pgstrom_max_async_tasks],
     [be_row_format |-> TRUE, dev_projection |-> TRUE, dev_quals |-> TRUE,
      pfm_enabled |-> TRUE, max_async_tasks |-> pgstrom_max_async_tasks],
     [be_row_format |-> TRUE, dev_projection |-> FALSE, dev_quals |-> TRUE,
      pfm_enabled |-> FALSE, max_async_tasks |-> 1]}

(* ---- initial state: after gpuscan_begin ------------------------------ *)
AllScanConfigs ==
    [be_row_format : BOOLEAN, dev_projection : BOOLEAN,
     dev_quals : BOOLEAN, pfm_enabled : BOOLEAN,
     max_async_tasks : {pgstrom_max_async_tasks}]

InitScan(configs) ==
    /\ gss \in configs
    /\ task = [t \in Tasks |-> NoTask]
    /\ pending_tasks = <<>>
    /\ running_tasks = <<>>
    /\ completed_tasks = <<>>
    /\ num_running_tasks = 0
    /\ num_completed_tasks = 0
    /\ lock = LockFree
    /\ txn = TRUE
    /\ gts_mem = "live"
    /\ hostpc = "loop"
    /\ host_task = 0
    /\ launch = FALSE
    /\ devmem = {}
    /\ pfm_accum = 0
    /\ latch = FALSE
    /\ fault = {}
    /\ hist = [running_at_teardown |-> 0, teardown |-> "none",
               drained_locked |-> TRUE, last_fail |-> "none", steps |-> <<>>,
               rescans |-> 0]
    /\ calls = <<>>
    /\ scan = NoScan
    /\ plan = NoPlan
    /\ calc = NoCalc

Init == InitScan(ScanConfigs)

(* a fault has taken the backend process down *)
Crashed == "crash" \in fault

(* ---- gpuscan_next_chunk: the Producer creates the next Task ----------- *)
NextChunk ==
    /\ ~Crashed
    /\ hostpc = "loop"
    /\ \E t \in Tasks :
        /\ task[t].mem = "none"
        /\ \A u \in Tasks : u < t => task[u].mem # "none"
        /\ task' = [task EXCEPT ![t] = CreateTask(gss)]
        /\ host_task' = t
    /\ hostpc' = "created"
    /\ UNCHANGED <<calc, scan, plan, gss, pending_tasks, running_tasks, completed_tasks,
                   num_running_tasks, num_completed_tasks, lock, txn,
                   gts_mem, launch, devmem, pfm_accum, latch, fault, hist,
                   calls>>

(* the host links the new Task at the tail of the pending queue *)
EnqueuePending ==
    /\ ~Crashed
    /\ hostpc = "created"
    /\ lock = LockFree
    /\ pending_tasks' = Append(pending_tasks, host_task)
    /\ task' = [task EXCEPT ![host_task].chain = TRUE]
    /\ host_task' = 0
    /\ hostpc' = "loop"
    /\ UNCHANGED <<calc, scan, plan, gss, running_tasks, completed_tasks,
                   num_running_tasks, num_completed_tasks, lock, txn,
                   gts_mem, launch, devmem, pfm_accum, latch, fault, hist,
                   calls>>

(* ---- device handles ---------------------------------------------------- *)
MemHandle(ptr) == [k |-> "mem", p |-> ptr, e |-> ""]
EvHandle(t, name) == [k |-> "ev", p |-> t, e |-> name]

(* faulty variants: the cleanup frees the device memory but leaves m_gpuscan set; *)
(* the cleanup destroys the events but leaves the event fields set        *)
CleanupTaskKeepsPointer(r) ==
    [r EXCEPT !.ev = {}, !.kern_exec_quals = FALSE, !.kern_dev_proj = FALSE,
              !.m_kds_src = 0, !.m_kds_dst = 0]

CleanupTaskKeepsEvents(r) ==
    [r EXCEPT !.kern_exec_quals = FALSE, !.kern_dev_proj = FALSE,
              !.m_gpuscan = 0, !.m_kds_src = 0, !.m_kds_dst = 0]

(* ---- gpuscan_cleanup_cuda_resources ---------------------------------- *)
(* CUDA_EVENT_DESTROY destroys an event that is set and nulls the field;  *)
(* the device memory is freed if m_gpuscan is set; every handle is nulled *)
CleanupTask(r) ==
    [r EXCEPT !.ev = {}, !.kern_exec_quals = FALSE, !.kern_dev_proj = FALSE,
              !.m_gpuscan = 0, !.m_kds_src = 0, !.m_kds_dst = 0]

TaskHandles(r, t) ==
    {EvHandle(t, e) : e \in r.ev}
       \cup (IF r.m_gpuscan # 0 THEN {MemHandle(r.m_gpuscan)} ELSE {})

CleanupDevmem(r, t, d) == d \ TaskHandles(r, t)

CleanupFault(r, t, d) ==
    IF TaskHandles(r, t) \subseteq d THEN {} ELSE {"double_free"}

(* ---- __pgstrom_process_gpuscan: the device calls in program order ----- *)
Call(op, arg) == [op |-> op, arg |-> arg]

EventCreates(g) ==
    IF g.pfm_enabled
    THEN <<Call("cuEventCreate", "ev_dma_send_start"),
           Call("cuEventCreate", "ev_dma_send_stop"),
           Call("cuEventCreate", "ev_dma_recv_start"),
           Call("cuEventCreate", "ev_dma_recv_stop")>>
    ELSE <<>>

(* CUDA_EVENT_RECORD enqueues the marker only when perfmon is enabled *)
EventRecord(g, name) ==
    IF g.pfm_enabled THEN <<Call("cuEventRecord", name)>> ELSE <<>>

(* faulty variant: the control block is copied out before the kernels are launched *)
ProcessCallsCopyOutEarly(g, r) ==
    <<Call("cuModuleGetFunction", "gpuscan_exec_quals"),
      Call("cuModuleGetFunction", "gpuscan_projection"),
      Call("gpuMemAlloc", "m_gpuscan")>>
    \o EventCreates(g)
    \o <<Call("cuMemcpyHtoDAsync", "kern"),
         Call("cuMemcpyHtoDAsync", "kds_src"),
         Call("cuMemcpyDtoHAsync", "kern")>>
    \o (IF g.dev_quals THEN <<Call("cuLaunchKernel", "gpuscan_exec_quals")>>
                       ELSE <<>>)
    \o (IF r.pds_dst THEN <<Call("cuLaunchKernel", "gpuscan_projection"),
                            Call("cuMemcpyDtoHAsync", "kds_dst")>>
                     ELSE <<>>)
    \o <<Call("cuStreamAddCallback", "pgstrom_respond_gpuscan")>>

(* faulty variant: the entry functions are looked up after the allocation *)
(* and the copies into the device                                         *)
ProcessCallsLookupLate(g, r) ==
    <<Call("gpuMemAlloc", "m_gpuscan")>>
    \o EventCreates(g)
    \o EventRecord(g, "ev_dma_send_start")
    \o <<Call("cuMemcpyHtoDAsync", "kern"),
         Call("cuMemcpyHtoDAsync", "kds_src")>>
    \o (IF r.pds_dst THEN <<Call("cuMemcpyHtoDAsync", "kds_dst_head")>>
                     ELSE <<>>)
    \o EventRecord(g, "ev_dma_send_stop")
    \o <<Call("cuModuleGetFunction", "gpuscan_exec_quals"),
         Call("cuModuleGetFunction", "gpuscan_projection")>>
    \o (IF g.dev_quals THEN <<Call("cuLaunchKernel", "gpuscan_exec_quals")>>
                       ELSE <<>>)
    \o (IF r.pds_dst THEN <<Call("cuLaunchKernel", "gpuscan_projection")>>
                     ELSE <<>>)
    \o EventRecord(g, "ev_dma_recv_start")
    \o <<Call("cuMemcpyDtoHAsync", "kern")>>
    \o (IF r.pds_dst THEN <<Call("cuMemcpyDtoHAsync", "kds_dst")>> ELSE <<>>)
    \o EventRecord(g, "ev_dma_recv_stop")
    \o <<Call("cuStreamAddCallback", "pgstrom_respond_gpuscan")>>

ProcessCalls(g, r) ==
    <<Call("cuModuleGetFunction", "gpuscan_exec_quals"),
      Call("cuModuleGetFunction", "gpuscan_projection"),
      Call("gpuMemAlloc", "m_gpuscan")>>
    \o EventCreates(g)
    \o EventRecord(g, "ev_dma_send_start")
    \o <<Call("cuMemcpyHtoDAsync", "kern"),
         Call("cuMemcpyHtoDAsync", "kds_src")>>
    \o (IF r.pds_dst THEN <<Call("cuMemcpyHtoDAsync", "kds_dst_head")>>
                     ELSE <<>>)
    \o EventRecord(g, "ev_dma_send_stop")
    \o (IF g.dev_quals THEN <<Call("cuLaunchKernel", "gpuscan_exec_quals")>>
                       ELSE <<>>)
    \o (IF r.pds_dst THEN <<Call("cuLaunchKernel", "gpuscan_projection")>>
                     ELSE <<>>)
    \o EventRecord(g, "ev_dma_recv_start")
    \o <<Call("cuMemcpyDtoHAsync", "kern")>>
    \o (IF r.pds_dst THEN <<Call("cuMemcpyDtoHAsync", "kds_dst")>> ELSE <<>>)
    \o EventRecord(g, "ev_dma_recv_stop")
    \o <<Call("cuStreamAddCallback", "pgstrom_respond_gpuscan")>>

StreamOps == {"cuEventRecord", "cuMemcpyHtoDAsync", "cuLaunchKernel",
              "cuMemcpyDtoHAsync", "cuStreamAddCallback"}

(* the effect of one successful device call on the Task *)
ApplyCall(r, t, c) ==
    IF c.op = "cuModuleGetFunction"
    THEN IF c.arg = "gpuscan_exec_quals"
         THEN [r EXCEPT !.kern_exec_quals = TRUE]
         ELSE [r EXCEPT !.kern_dev_proj = TRUE]
    ELSE IF c.op = "gpuMemAlloc"
    THEN LET lay == DeviceLayout(DevPtr(t), AlignedKernLength,
                                 AlignedSrcLength, AlignedSrcLength,
                                 r.pds_dst)
         IN  [r EXCEPT !.m_gpuscan = lay.m_gpuscan,
                       !.m_kds_src = lay.m_kds_src,
                       !.m_kds_dst = lay.m_kds_dst]
    ELSE IF c.op = "cuEventCreate"
    THEN [r EXCEPT !.ev = @ \cup {c.arg}]
    ELSE IF c.op = "cuStreamAddCallback"
    THEN [r EXCEPT !.cmds = Append(@, c), !.cb = "armed"]
    ELSE [r EXCEPT !.cmds = Append(@, c)]

ApplyCallDevmem(d, t, c) ==
    IF c.op = "gpuMemAlloc" THEN d \cup {MemHandle(DevPtr(t))}
    ELSE IF c.op = "cuEventCreate" THEN d \cup {EvHandle(t, c.arg)}
    ELSE d

RECURSIVE RunCalls(_, _, _, _)
RunCalls(r, t, cs, n) ==
    IF n = 0 THEN r
    ELSE ApplyCall(RunCalls(r, t, cs, n - 1), t, cs[n])

RECURSIVE RunCallsDevmem(_, _, _, _)
RunCallsDevmem(d, t, cs, n) ==
    IF n = 0 THEN d
    ELSE ApplyCallDevmem(RunCallsDevmem(d, t, cs, n - 1), t, cs[n])

(* faulty variant: the out_of_resource exit returns without the cleanup *)
ProcessOutcomeNoCleanup(g, r, t, d, k) ==
    LET cs == ProcessCalls(g, r)
        r1 == RunCalls(r, t, cs, IF k = 0 THEN 0 ELSE k - 1)
        d1 == RunCallsDevmem(d, t, cs, IF k = 0 THEN 0 ELSE k - 1)
    IN  IF k = Len(cs) + 1
        THEN [task |-> r1, devmem |-> d1, result |-> "true",
              failed |-> "none"]
        ELSE IF k = 0
        THEN [task |-> r, devmem |-> d, result |-> "error",
              failed |-> "cuCtxPushCurrent"]
        ELSE IF cs[k].op = "gpuMemAlloc"
        THEN [task |-> r1, devmem |-> d1, result |-> "false",
              failed |-> cs[k].op]
        ELSE [task |-> CleanupTask(r1),
              devmem |-> CleanupDevmem(r1, t, d1),
              result |-> "error",
              failed |-> cs[k].op]

(* ---- pgstrom_process_gpuscan ------------------------------------------ *)
(* k is the first device call that fails; Len+1 means none fails, 0 means *)
(* cuCtxPushCurrent itself fails.  A failing gpuMemAlloc takes the        *)
(* out_of_resource exit, any other failure raises ERROR through PG_CATCH. *)
ProcessOutcome(g, r, t, d, k) ==
    LET cs == ProcessCalls(g, r)
        r1 == RunCalls(r, t, cs, IF k = 0 THEN 0 ELSE k - 1)
        d1 == RunCallsDevmem(d, t, cs, IF k = 0 THEN 0 ELSE k - 1)
    IN  IF k = Len(cs) + 1
        THEN [task |-> r1, devmem |-> d1, result |-> "true",
              failed |-> "none"]
        ELSE IF k = 0
        THEN [task |-> r, devmem |-> d, result |-> "error",
              failed |-> "cuCtxPushCurrent"]
        ELSE [task |-> CleanupTask(r1),
              devmem |-> CleanupDevmem(r1, t, d1),
              result |-> IF cs[k].op = "gpuMemAlloc" THEN "false"
                         ELSE "error",
              failed |-> cs[k].op]

(* faulty variant: the error exit re-throws with the context still pushed *)
ProcessStepsKeepsContext(result, failed) ==
    IF failed = "cuCtxPushCurrent"
    THEN <<"cuCtxPushCurrent", "elog_ERROR">>
    ELSE IF result = "error"
    THEN <<"cuCtxPushCurrent", "__pgstrom_process_gpuscan",
           "gpuscan_cleanup_cuda_resources", "PG_RE_THROW">>
    ELSE <<"cuCtxPushCurrent", "__pgstrom_process_gpuscan",
           "cuCtxPopCurrent", "return">>

(* lines 2302-2325: the calls pgstrom_process_gpuscan makes around the    *)
(* submission, in program order; the out_of_resource exit has done its    *)
(* cleanup inside __pgstrom_process_gpuscan                                *)
ProcessSteps(result, failed) ==
    IF failed = "cuCtxPushCurrent"
    THEN <<"cuCtxPushCurrent", "elog_ERROR">>
    ELSE IF result = "error"
    THEN <<"cuCtxPushCurrent", "__pgstrom_process_gpuscan",
           "gpuscan_cleanup_cuda_resources", "cuCtxPopCurrent",
           "PG_RE_THROW">>
    ELSE <<"cuCtxPushCurrent", "__pgstrom_process_gpuscan",
           "cuCtxPopCurrent", "return">>

ProcessGpuscanAt(k) ==
    /\ ~Crashed
    /\ hostpc = "popped"
    /\ LET o == ProcessOutcome(gss, task[host_task], host_task, devmem, k)
       IN  /\ task' = [task EXCEPT ![host_task] = o.task]
           /\ devmem' = o.devmem
           /\ launch' = (o.result = "true")
           /\ hostpc' = IF o.result = "error" THEN "error" ELSE "processed"
           /\ hist' = [hist EXCEPT !.last_fail = o.failed,
                                   !.steps = ProcessSteps(o.result,
                                                          o.failed)]
    /\ UNCHANGED <<calc, scan, plan, gss, pending_tasks, running_tasks, completed_tasks,
                   num_running_tasks, num_completed_tasks, lock, txn,
                   gts_mem, host_task, pfm_accum, latch, fault, calls>>

(* every device call of the submission may be the one that fails *)
AllFailures(g, r) == 0 .. Len(ProcessCalls(g, r)) + 1

(* one failure of each kind: the allocation (the third call), the last    *)
(* device call (the callback registration), and no failure                *)
KindFailures(g, r) ==
    {3, Len(ProcessCalls(g, r)), Len(ProcessCalls(g, r)) + 1}

ProcessGpuscan ==
    /\ hostpc = "popped"
    /\ \E k \in KindFailures(gss, task[host_task]) : ProcessGpuscanAt(k)

(* ---- launch_pending_tasks (host loop) --------------------------------- *)

(* faulty variant: the host launches whatever is pending *)
LaunchPopUnbounded ==
    /\ ~Crashed
    /\ hostpc = "loop"
    /\ lock = LockFree
    /\ pending_tasks # <<>>
    /\ host_task' = Head(pending_tasks)
    /\ pending_tasks' = Tail(pending_tasks)
    /\ task' = [task EXCEPT ![Head(pending_tasks)].chain = FALSE]
    /\ hostpc' = "popped"
    /\ UNCHANGED <<calc, scan, plan, gss, running_tasks, completed_tasks,
                   num_running_tasks, num_completed_tasks, lock, txn,
                   gts_mem, launch, devmem, pfm_accum, latch, fault, hist,
                   calls>>

(* pop the head of the pending queue and clear its chain, under the lock, *)
(* while fewer than K Tasks are running *)
LaunchPop ==
    /\ ~Crashed
    /\ hostpc = "loop"
    /\ lock = LockFree
    /\ pending_tasks # <<>>
    /\ num_running_tasks < gss.max_async_tasks
    /\ host_task' = Head(pending_tasks)
    /\ pending_tasks' = Tail(pending_tasks)
    /\ task' = [task EXCEPT ![Head(pending_tasks)].chain = FALSE]
    /\ hostpc' = "popped"
    /\ UNCHANGED <<calc, scan, plan, gss, running_tasks, completed_tasks, num_running_tasks,
                   num_completed_tasks, lock, txn, gts_mem, launch, devmem,
                   pfm_accum, latch, fault, hist, calls>>

(* attach the launched Task to the running list unless the callback has   *)
(* linked it already; a Task that could not be launched goes back to the  *)
(* head of the pending queue *)
LaunchAttach ==
    /\ ~Crashed
    /\ hostpc = "processed"
    /\ lock = LockFree
    /\ IF launch
       THEN IF ~task[host_task].chain
            THEN /\ running_tasks' = Append(running_tasks, host_task)
                 /\ num_running_tasks' = num_running_tasks + 1
                 /\ task' = [task EXCEPT ![host_task].chain = TRUE]
                 /\ UNCHANGED pending_tasks
            ELSE UNCHANGED <<running_tasks, num_running_tasks, task,
                             pending_tasks>>
       ELSE /\ pending_tasks' = <<host_task>> \o pending_tasks
            /\ task' = [task EXCEPT ![host_task].chain = TRUE]
            /\ UNCHANGED <<running_tasks, num_running_tasks>>
    /\ host_task' = 0
    /\ hostpc' = "loop"
    /\ UNCHANGED <<calc, scan, plan, gss, completed_tasks, num_completed_tasks, lock, txn,
                   gts_mem, launch, devmem, pfm_accum, latch, fault, hist,
                   calls>>

(* ---- pgstrom_respond_gpuscan: the completion callback ------------------ *)
(* The callback runs on a thread of the device runtime; each step below   *)
(* is one group of statements between two points where the host can run.  *)
Touch(t, res, mode) == <<res, mode, lock = LockCallback(t)>>

(* an access to memory that has already been released *)
Stale(t) == IF task[t].mem = "freed" THEN {"use_after_free"} ELSE {}

(* lines 2006 and 2035: the callback is entered with the status the       *)
(* runtime passes, loads gpuscan->task.gts, and bails out when the        *)
(* context or the transaction is gone; kern.kerror is what the DMA        *)
(* receive left in the control block *)
CbCheck(t) ==
    /\ ~Crashed
    /\ task[t].cb = "armed"
    /\ \E st \in CUresults, ke \in KernErrors :
        /\ st = CUDA_ERROR_INVALID_CONTEXT => (~txn \/ gts_mem = "freed")
        /\ st # CUDA_SUCCESS => ke = StromError_Success
        /\ task' = [task EXCEPT
              ![t].cb = IF st = CUDA_ERROR_INVALID_CONTEXT \/ ~txn
                        THEN "done" ELSE "checked",
              ![t].cb_dead = (st = CUDA_ERROR_INVALID_CONTEXT \/ ~txn),
              ![t].status = st,
              ![t].kern_kerror = ke,
              ![t].cb_late = (gts_mem = "freed"),
              ![t].touch = @ \cup {Touch(t, "task.gts", "r")}]
    /\ fault' = fault \cup Stale(t)
    /\ UNCHANGED <<calc, scan, plan, gss, pending_tasks, running_tasks, completed_tasks,
                   num_running_tasks, num_completed_tasks, lock, txn,
                   gts_mem, hostpc, host_task, launch, devmem, pfm_accum,
                   latch, hist, calls>>

(* lines 2039-2046: the error slot of the Task *)
(* faulty variant: the runtime status is dropped, only the kernel's code is kept *)
RespondErrorDropsStatus(st, ke) == ke

RespondError(st, ke) == IF st = CUDA_SUCCESS THEN ke ELSE st

CbStash(t) ==
    /\ ~Crashed
    /\ task[t].cb = "checked"
    /\ task' = [task EXCEPT
                  ![t].cb = "stashed",
                  ![t].kerror = RespondError(task[t].status,
                                             task[t].kern_kerror),
                  ![t].touch = @ \cup {Touch(t, "task.kerror", "w")}]
    /\ fault' = fault \cup Stale(t)
    /\ UNCHANGED <<calc, scan, plan, gss, pending_tasks, running_tasks, completed_tasks,
                   num_running_tasks, num_completed_tasks, lock, txn,
                   gts_mem, hostpc, host_task, launch, devmem, pfm_accum,
                   latch, hist, calls>>

(* faulty variant: the callback enters its critical section without the lock *)
CbLockSkipped(t) ==
    /\ ~Crashed
    /\ task[t].cb = "stashed"
    /\ task' = [task EXCEPT ![t].cb = "locked"]
    /\ UNCHANGED <<calc, scan, plan, gss, pending_tasks, running_tasks, completed_tasks,
                   num_running_tasks, num_completed_tasks, lock, txn,
                   gts_mem, hostpc, host_task, launch, devmem, pfm_accum,
                   latch, fault, hist, calls>>

(* line 2054: SpinLockAcquire(&gts->lock) *)
CbLock(t) ==
    /\ ~Crashed
    /\ task[t].cb = "stashed"
    /\ lock = LockFree
    /\ lock' = LockCallback(t)
    /\ task' = [task EXCEPT ![t].cb = "locked"]
    /\ fault' = fault \cup (IF gts_mem = "freed" THEN {"use_after_free"}
                            ELSE {})
    /\ UNCHANGED <<calc, scan, plan, gss, pending_tasks, running_tasks, completed_tasks,
                   num_running_tasks, num_completed_tasks, txn,
                   gts_mem, hostpc, host_task, launch, devmem, pfm_accum,
                   latch, hist, calls>>

(* faulty variant: the node is not unlinked before it is pushed again *)
DlistDeleteKeeps(q, t) == q

(* dlist_delete unlinks the node from whichever list it is linked in *)
DlistDelete(q, t) == SeqRemove(q, t)

(* faulty variant: every Task is queued at the tail, errors too *)
PushCompletedTail(q, t, errcode) == Append(q, t)

(* lines 2060-2063: errors go to the head, successes to the tail *)
PushCompleted(q, t, errcode) ==
    IF errcode = StromError_Success THEN Append(q, t) ELSE <<t>> \o q

(* faulty variant: the callback unlinks the Task and decrements the       *)
(* running counter whether or not the Task is linked                      *)
CbMoveAlwaysUnlinks(t) ==
    /\ ~Crashed
    /\ task[t].cb = "locked"
    /\ running_tasks' = DlistDelete(running_tasks, t)
    /\ pending_tasks' = DlistDelete(pending_tasks, t)
    /\ num_running_tasks' = num_running_tasks - 1
    /\ completed_tasks' = PushCompleted(DlistDelete(completed_tasks, t), t,
                                        task[t].kerror)
    /\ num_completed_tasks' = num_completed_tasks + 1
    /\ task' = [task EXCEPT ![t].cb = "done", ![t].chain = TRUE,
                            ![t].entered = @ + 1]
    /\ lock' = LockFree
    /\ latch' = TRUE
    /\ fault' = fault \cup Stale(t)
    /\ UNCHANGED <<calc, scan, plan, gss, txn, gts_mem, hostpc, host_task, launch,
                   devmem, pfm_accum, hist, calls>>

(* faulty variant: the callback releases the lock and returns without     *)
(* moving the Task                                                        *)
CbMoveReturnsEarly(t) ==
    /\ ~Crashed
    /\ task[t].cb = "locked"
    /\ task' = [task EXCEPT ![t].cb = "done"]
    /\ lock' = LockFree
    /\ UNCHANGED <<calc, scan, plan, gss, pending_tasks, running_tasks,
                   completed_tasks, num_running_tasks, num_completed_tasks,
                   txn, gts_mem, hostpc, host_task, launch, devmem,
                   pfm_accum, latch, fault, hist, calls>>

(* lines 2055-2067: the critical section, SpinLockRelease, then SetLatch *)
CbMove(t) ==
    /\ ~Crashed
    /\ task[t].cb = "locked"
    /\ LET linked == task[t].chain
           q == IF linked THEN DlistDelete(completed_tasks, t)
                ELSE completed_tasks
       IN  /\ running_tasks' = IF linked THEN DlistDelete(running_tasks, t)
                               ELSE running_tasks
           /\ pending_tasks' = IF linked THEN DlistDelete(pending_tasks, t)
                               ELSE pending_tasks
           /\ num_running_tasks' = IF linked THEN num_running_tasks - 1
                                   ELSE num_running_tasks
           /\ completed_tasks' = PushCompleted(q, t, task[t].kerror)
           /\ num_completed_tasks' = num_completed_tasks + 1
           /\ task' = [task EXCEPT
                 ![t].cb = "done",
                 ![t].chain = TRUE,
                 ![t].entered = @ + 1,
                 ![t].touch = @ \cup
                    {Touch(t, "task.chain", "w"),
                     Touch(t, "task.kerror", "r"),
                     Touch(t, "completed_tasks", "w"),
                     Touch(t, "num_completed_tasks", "w"),
                     <<"latch", "w", FALSE>>}
                    \cup (IF linked
                          THEN {Touch(t, "running_tasks", "w"),
                                Touch(t, "num_running_tasks", "w")}
                          ELSE {})]
    /\ lock' = LockFree
    /\ latch' = TRUE
    /\ fault' = fault \cup Stale(t)
    /\ UNCHANGED <<calc, scan, plan, gss, txn, gts_mem, hostpc, host_task, launch, devmem,
                   pfm_accum, hist, calls>>

(* a callback step that touches released memory may also take the process *)
(* down instead of reading or writing the stale bytes *)
CbFault(t) ==
    /\ ~Crashed
    /\ \/ task[t].cb \in {"armed", "checked", "locked"}
          /\ task[t].mem = "freed"
       \/ task[t].cb = "stashed" /\ gts_mem = "freed" /\ lock = LockFree
    /\ fault' = fault \cup {"use_after_free", "crash"}
    /\ UNCHANGED <<calc, scan, plan, gss, task, pending_tasks, running_tasks, completed_tasks,
                   num_running_tasks, num_completed_tasks, lock, txn,
                   gts_mem, hostpc, host_task, launch, devmem, pfm_accum,
                   latch, hist, calls>>

(* ---- pgstrom_complete_gpuscan ----------------------------------------- *)
(* with perfmon enabled the Task's perfmon record is accumulated into the *)
(* GpuTaskState on every call; then the device resources are cleaned up   *)
CompleteAccum(g, n) == IF g.pfm_enabled THEN n + 1 ELSE n

(* ---- pgstrom_release_gpuscan ------------------------------------------ *)
(* releases the chunks, runs completion processing again and frees the    *)
(* Task; the pointers inside the freed object are left as they were       *)
ReleaseTask(r) == [CleanupTask(r) EXCEPT !.mem = "freed"]

ReleaseFault(r, t, d) ==
    CleanupFault(r, t, d)
    \cup (IF r.mem = "freed"
          THEN {"use_after_free", "double_release_data_store", "double_pfree"}
          ELSE {})

(* ---- check_completed_tasks (host loop) -------------------------------- *)
CheckPop ==
    /\ ~Crashed
    /\ hostpc = "loop"
    /\ lock = LockFree
    /\ completed_tasks # <<>>
    /\ host_task' = Head(completed_tasks)
    /\ completed_tasks' = Tail(completed_tasks)
    /\ num_completed_tasks' = num_completed_tasks - 1
    /\ hostpc' = "completing"
    /\ UNCHANGED <<calc, scan, plan, gss, task, pending_tasks, running_tasks,
                   num_running_tasks, lock, txn, gts_mem, launch, devmem,
                   pfm_accum, latch, fault, hist, calls>>

CompleteGpuscan ==
    /\ ~Crashed
    /\ hostpc = "completing"
    /\ task' = [task EXCEPT ![host_task] = CleanupTask(@)]
    /\ devmem' = CleanupDevmem(task[host_task], host_task, devmem)
    /\ fault' = fault \cup CleanupFault(task[host_task], host_task, devmem)
    /\ pfm_accum' = CompleteAccum(gss, pfm_accum)
    /\ hostpc' = "ready"
    /\ UNCHANGED <<calc, scan, plan, gss, pending_tasks, running_tasks, completed_tasks,
                   num_running_tasks, num_completed_tasks, lock, txn,
                   gts_mem, host_task, launch, latch, hist, calls>>

(* the Consumer drains the Task: an error stashed on it is raised *)
Consume ==
    /\ ~Crashed
    /\ hostpc = "ready"
    /\ task' = [task EXCEPT ![host_task].observed = task[host_task].kerror]
    /\ hostpc' = IF task[host_task].kerror = StromError_Success
                 THEN "drained" ELSE "error"
    /\ UNCHANGED <<calc, scan, plan, gss, pending_tasks, running_tasks, completed_tasks,
                   num_running_tasks, num_completed_tasks, lock, txn,
                   gts_mem, host_task, launch, devmem, pfm_accum, latch,
                   fault, hist, calls>>

ReleaseGpuscan ==
    /\ ~Crashed
    /\ hostpc = "drained"
    /\ task' = [task EXCEPT ![host_task] = ReleaseTask(@)]
    /\ devmem' = CleanupDevmem(task[host_task], host_task, devmem)
    /\ fault' = fault \cup ReleaseFault(task[host_task], host_task, devmem)
    /\ pfm_accum' = CompleteAccum(gss, pfm_accum)
    /\ host_task' = 0
    /\ hostpc' = "loop"
    /\ UNCHANGED <<calc, scan, plan, gss, pending_tasks, running_tasks, completed_tasks,
                   num_running_tasks, num_completed_tasks, lock, txn,
                   gts_mem, launch, latch, hist, calls>>

(* ---- abort and end of scan -------------------------------------------- *)
(* an ERROR (raised by the host itself or by an interrupt) leaves the     *)
(* transaction state before any resource is released *)
Abort ==
    /\ ~Crashed
    /\ hostpc \in {"loop", "error"}
    /\ txn' = FALSE
    /\ hostpc' = "teardown"
    /\ UNCHANGED <<calc, scan, plan, gss, task, pending_tasks, running_tasks, completed_tasks,
                   num_running_tasks, num_completed_tasks, lock, gts_mem,
                   host_task, launch, devmem, pfm_accum, latch, fault, hist,
                   calls>>

(* gpuscan_end: the executor ends the scan inside the live transaction *)
EndScan ==
    /\ ~Crashed
    /\ hostpc = "loop"
    /\ hostpc' = "teardown"
    /\ UNCHANGED <<calc, scan, plan, gss, task, pending_tasks, running_tasks, completed_tasks,
                   num_running_tasks, num_completed_tasks, lock, txn,
                   gts_mem, host_task, launch, devmem, pfm_accum, latch,
                   fault, hist, calls>>

(* ---- pgstrom_release_gputaskstate: teardown --------------------------- *)
TeardownLock ==
    /\ ~Crashed
    /\ hostpc = "teardown"
    /\ lock = LockFree
    /\ lock' = LockHost
    /\ hostpc' = "teardown_locked"
    /\ hist' = [hist EXCEPT !.running_at_teardown = Len(running_tasks)]
    /\ UNCHANGED <<calc, scan, plan, gss, task, pending_tasks, running_tasks, completed_tasks,
                   num_running_tasks, num_completed_tasks, txn, gts_mem,
                   host_task, launch, devmem, pfm_accum, latch, fault, calls>>

(* forced drain: every running Task is moved to the completed queue *)
TeardownDrain ==
    /\ ~Crashed
    /\ hostpc = "teardown_locked"
    /\ completed_tasks' = completed_tasks \o running_tasks
    /\ num_completed_tasks' = num_completed_tasks + Len(running_tasks)
    /\ running_tasks' = <<>>
    /\ num_running_tasks' = 0
    /\ task' = [t \in Tasks |->
                  IF t \in SeqSet(running_tasks)
                  THEN [task[t] EXCEPT !.entered = @ + 1]
                  ELSE task[t]]
    /\ hist' = [hist EXCEPT !.drained_locked = (lock = LockHost)]
    /\ lock' = LockFree
    /\ hostpc' = "teardown_release"
    /\ UNCHANGED <<calc, scan, plan, gss, pending_tasks, txn, gts_mem, host_task, launch,
                   devmem, pfm_accum, latch, fault, calls>>

(* every Task of the scan is released, whatever its state, and the        *)
(* GpuTaskState goes away *)
TeardownRelease ==
    /\ ~Crashed
    /\ hostpc = "teardown_release"
    /\ lock = LockFree
    /\ LET live == {t \in Tasks : task[t].mem = "live"}
       IN  /\ task' = [t \in Tasks |->
                         IF t \in live THEN ReleaseTask(task[t]) ELSE task[t]]
           /\ devmem' = devmem \ UNION {TaskHandles(task[t], t) : t \in live}
           /\ fault' = fault \cup
                 UNION {CleanupFault(task[t], t, devmem) : t \in live}
           /\ pfm_accum' = IF gss.pfm_enabled
                           THEN pfm_accum + Cardinality(live) ELSE pfm_accum
    /\ pending_tasks' = <<>>
    /\ completed_tasks' = <<>>
    /\ num_completed_tasks' = 0
    /\ gts_mem' = "freed"
    /\ host_task' = 0
    /\ hostpc' = "ended"
    /\ hist' = [hist EXCEPT !.teardown = "done"]
    /\ UNCHANGED <<calc, scan, plan, gss, running_tasks, num_running_tasks, lock, txn, launch,
                   latch, calls>>

(* ---- gpuscan_rescan, lines 1856-1866 ----------------------------------- *)
(* pgstrom_cleanup_gputaskstate cleans up and releases the concurrent      *)
(* Tasks as the teardown does, and leaves the GpuTaskState in place; the   *)
(* executor then rewinds the cursor and goes on with the scan              *)
Rescan ==
    /\ ~Crashed
    /\ hostpc = "loop"
    /\ hist.rescans < MaxRescans
    /\ hostpc' = "rescan"
    /\ hist' = [hist EXCEPT !.rescans = @ + 1]
    /\ UNCHANGED <<calc, scan, plan, gss, task, pending_tasks, running_tasks,
                   completed_tasks, num_running_tasks, num_completed_tasks,
                   lock, txn, gts_mem, host_task, launch, devmem, pfm_accum,
                   latch, fault, calls>>

RescanLock ==
    /\ ~Crashed
    /\ hostpc = "rescan"
    /\ lock = LockFree
    /\ lock' = LockHost
    /\ hostpc' = "rescan_locked"
    /\ UNCHANGED <<calc, scan, plan, gss, task, pending_tasks, running_tasks,
                   completed_tasks, num_running_tasks, num_completed_tasks,
                   txn, gts_mem, host_task, launch, devmem, pfm_accum, latch,
                   fault, hist, calls>>

RescanDrain ==
    /\ ~Crashed
    /\ hostpc = "rescan_locked"
    /\ completed_tasks' = completed_tasks \o running_tasks
    /\ num_completed_tasks' = num_completed_tasks + Len(running_tasks)
    /\ running_tasks' = <<>>
    /\ num_running_tasks' = 0
    /\ task' = [t \in Tasks |->
                  IF t \in SeqSet(running_tasks)
                  THEN [task[t] EXCEPT !.entered = @ + 1]
                  ELSE task[t]]
    /\ lock' = LockFree
    /\ hostpc' = "rescan_release"
    /\ UNCHANGED <<calc, scan, plan, gss, pending_tasks, txn, gts_mem,
                   host_task, launch, devmem, pfm_accum, latch, fault, hist,
                   calls>>

(* the cleanup releases every Task of the scan, whatever its state *)
RescanRelease ==
    /\ ~Crashed
    /\ hostpc = "rescan_release"
    /\ lock = LockFree
    /\ LET live == {t \in Tasks : task[t].mem = "live"}
       IN  /\ task' = [t \in Tasks |->
                         IF t \in live THEN ReleaseTask(task[t]) ELSE task[t]]
           /\ devmem' = devmem \ UNION {TaskHandles(task[t], t) : t \in live}
           /\ fault' = fault \cup
                 UNION {CleanupFault(task[t], t, devmem) : t \in live}
           /\ pfm_accum' = IF gss.pfm_enabled
                           THEN pfm_accum + Cardinality(live) ELSE pfm_accum
           /\ pending_tasks' = SelectSeq(pending_tasks,
                                         LAMBDA t : t \notin live)
           /\ completed_tasks' = SelectSeq(completed_tasks,
                                           LAMBDA t : t \notin live)
           /\ num_completed_tasks' =
                 Len(SelectSeq(completed_tasks, LAMBDA t : t \notin live))
    /\ host_task' = 0
    /\ hostpc' = "loop"
    /\ UNCHANGED <<calc, scan, plan, gss, running_tasks, num_running_tasks,
                   lock, txn, gts_mem, launch, latch, hist, calls>>

(* ---- the submission alone, over every scan configuration and every     *)
(* ---- device call that may fail ---------------------------------------- *)
InitSubmit == InitScan(AllScanConfigs)

ProcessGpuscanAny ==
    /\ hostpc = "popped"
    /\ \E k \in AllFailures(gss, task[host_task]) : ProcessGpuscanAt(k)

NextSubmit ==
    \/ NextChunk
    \/ EnqueuePending
    \/ LaunchPop
    \/ ProcessGpuscanAny
    \/ LaunchAttach

SpecSubmit == InitSubmit /\ [][NextSubmit]_vars

(* ---- a scan whose kernel program is unusable --------------------------- *)
(* The module lacks an entry function, or the program could not be built   *)
(* or loaded at all.                                                       *)
EntryFunctions == {"gpuscan_exec_quals", "gpuscan_projection"}

(* the position of the lookup of fn among the device calls *)
LookupIndex(g, r, fn) ==
    CHOOSE k \in 1 .. Len(ProcessCalls(g, r)) :
        ProcessCalls(g, r)[k] = Call("cuModuleGetFunction", fn)

(* lines 2085-2100: cuModuleGetFunction does not find the entry function *)
ProcessGpuscanUnresolved ==
    /\ hostpc = "popped"
    /\ \E fn \in EntryFunctions :
         ProcessGpuscanAt(LookupIndex(gss, task[host_task], fn))

(* the program cache reports the failed build when the Task is about to   *)
(* be handed to pgstrom_process_gpuscan; the scan raises the error         *)
ProgramBuildFails ==
    /\ ~Crashed
    /\ hostpc = "popped"
    /\ hostpc' = "error"
    /\ launch' = FALSE
    /\ hist' = [hist EXCEPT !.last_fail = "pgstrom_load_cuda_program",
                            !.steps = <<"pgstrom_load_cuda_program",
                                        "elog_ERROR">>]
    /\ UNCHANGED <<calc, scan, plan, gss, task, pending_tasks, running_tasks,
                   completed_tasks, num_running_tasks, num_completed_tasks,
                   lock, txn, gts_mem, host_task, devmem, pfm_accum, latch,
                   fault, calls>>

NextCompile ==
    \/ NextChunk
    \/ EnqueuePending
    \/ LaunchPop
    \/ ProcessGpuscanUnresolved
    \/ ProgramBuildFails
    \/ Abort
    \/ TeardownLock
    \/ TeardownDrain
    \/ TeardownRelease

SpecCompile == InitSubmit /\ [][NextCompile]_vars

(* ---- the release routines called in sequence on one Task -------------- *)
(* The Task starts in any state a submission can leave it in.             *)
InitRelease ==
    /\ gss \in AllScanConfigs
    /\ \E k \in AllFailures(gss, CreateTask(gss)) :
         LET o == ProcessOutcome(gss, CreateTask(gss), 1, {}, k)
         IN  /\ task = [t \in Tasks |-> IF t = 1 THEN o.task ELSE NoTask]
             /\ devmem = o.devmem
    /\ pending_tasks = <<>>
    /\ running_tasks = <<>>
    /\ completed_tasks = <<>>
    /\ num_running_tasks = 0
    /\ num_completed_tasks = 0
    /\ lock = LockFree
    /\ txn = TRUE
    /\ gts_mem = "live"
    /\ hostpc = "release"
    /\ host_task = 1
    /\ launch = FALSE
    /\ pfm_accum = 0
    /\ latch = FALSE
    /\ fault = {}
    /\ hist = [running_at_teardown |-> 0, teardown |-> "none",
               drained_locked |-> TRUE, last_fail |-> "none", steps |-> <<>>,
               rescans |-> 0]
    /\ calls = <<>>
    /\ scan = NoScan
    /\ plan = NoPlan
    /\ calc = NoCalc

CallCleanup ==
    /\ hostpc = "release"
    /\ Len(calls) < MaxCalls
    /\ task[host_task].mem = "live"
    /\ calls' = Append(calls, "gpuscan_cleanup_cuda_resources")
    /\ task' = [task EXCEPT ![host_task] = CleanupTask(@)]
    /\ devmem' = CleanupDevmem(task[host_task], host_task, devmem)
    /\ fault' = fault \cup CleanupFault(task[host_task], host_task, devmem)
    /\ UNCHANGED <<calc, scan, plan, gss, pending_tasks, running_tasks, completed_tasks,
                   num_running_tasks, num_completed_tasks, lock, txn,
                   gts_mem, hostpc, host_task, launch, pfm_accum, latch,
                   hist>>

CallComplete ==
    /\ hostpc = "release"
    /\ Len(calls) < MaxCalls
    /\ task[host_task].mem = "live"
    /\ calls' = Append(calls, "pgstrom_complete_gpuscan")
    /\ task' = [task EXCEPT ![host_task] = CleanupTask(@)]
    /\ devmem' = CleanupDevmem(task[host_task], host_task, devmem)
    /\ fault' = fault \cup CleanupFault(task[host_task], host_task, devmem)
    /\ pfm_accum' = CompleteAccum(gss, pfm_accum)
    /\ UNCHANGED <<calc, scan, plan, gss, pending_tasks, running_tasks, completed_tasks,
                   num_running_tasks, num_completed_tasks, lock, txn,
                   gts_mem, hostpc, host_task, launch, latch, hist>>

CallRelease ==
    /\ hostpc = "release"
    /\ Len(calls) < MaxCalls
    /\ calls' = Append(calls, "pgstrom_release_gpuscan")
    /\ task' = [task EXCEPT ![host_task] = ReleaseTask(@)]
    /\ devmem' = CleanupDevmem(task[host_task], host_task, devmem)
    /\ fault' = fault \cup ReleaseFault(task[host_task], host_task, devmem)
    /\ pfm_accum' = CompleteAccum(gss, pfm_accum)
    /\ UNCHANGED <<calc, scan, plan, gss, pending_tasks, running_tasks, completed_tasks,
                   num_running_tasks, num_completed_tasks, lock, txn,
                   gts_mem, hostpc, host_task, launch, latch, hist>>

NextRelease ==
    \/ CallCleanup
    \/ CallComplete
    \/ CallRelease

SpecRelease == InitRelease /\ [][NextRelease]_vars

Next ==
    \/ NextChunk
    \/ EnqueuePending
    \/ LaunchPop
    \/ ProcessGpuscan
    \/ LaunchAttach
    \/ \E t \in Tasks : CbCheck(t)
    \/ \E t \in Tasks : CbStash(t)
    \/ \E t \in Tasks : CbLock(t)
    \/ \E t \in Tasks : CbMove(t)
    \/ \E t \in Tasks : CbFault(t)
    \/ CheckPop
    \/ CompleteGpuscan
    \/ Consume
    \/ ReleaseGpuscan
    \/ Abort
    \/ EndScan
    \/ TeardownLock
    \/ TeardownDrain
    \/ TeardownRelease

Spec == Init /\ [][Next]_vars

(* ---- the lifecycle of a scan that is rescanned ------------------------- *)
NextRescan ==
    \/ NextChunk
    \/ EnqueuePending
    \/ LaunchPop
    \/ ProcessGpuscan
    \/ LaunchAttach
    \/ \E t \in Tasks : CbCheck(t)
    \/ \E t \in Tasks : CbStash(t)
    \/ \E t \in Tasks : CbLock(t)
    \/ \E t \in Tasks : CbMove(t)
    \/ \E t \in Tasks : CbFault(t)
    \/ CheckPop
    \/ CompleteGpuscan
    \/ Consume
    \/ ReleaseGpuscan
    \/ Rescan
    \/ RescanLock
    \/ RescanDrain
    \/ RescanRelease

SpecRescan == Init /\ [][NextRescan]_vars

(* ======================================================================= *)
(* The chunked scan: gpuscan_next_chunk, the kernel's result, and         *)
(* gpuscan_next_tuple, driven one Task at a time                          *)
(* ======================================================================= *)
(* A row is <<block, position, kind>>; its kind says which qualifiers it  *)
(* satisfies: "pass" the device and the host qualifiers, "dev_only" the   *)
(* device qualifiers only, "miss" not the device qualifiers.              *)
RowKinds == {"pass", "dev_only", "miss"}

RECURSIVE SeqsUpTo(_, _)
SeqsUpTo(S, n) ==
    IF n = 0 THEN {<<>>}
    ELSE LET shorter == SeqsUpTo(S, n - 1)
         IN  shorter \cup {Append(q, x) : q \in shorter, x \in S}

Blocks == SeqsUpTo(RowKinds, MaxBlockRows)
Relations == SeqsUpTo(Blocks, MaxBlocks)

(* the chunk is never smaller than what one block may need *)
Budgets == MaxBlockRows .. MaxBudget

(* the visible rows of block number blk (0-based) of the relation *)
BlockRows(rel, blk) ==
    [i \in 1 .. Len(rel[blk + 1]) |-> <<blk, i, rel[blk + 1][i]>>]

RECURSIVE AllRows(_, _)
AllRows(rel, n) ==
    IF n = 0 THEN <<>> ELSE AllRows(rel, n - 1) \o BlockRows(rel, n - 1)

(* a data store just created by pgstrom_create_data_store_row *)
EmptyStore == [rows |-> <<>>, nblocks |-> 0]

(* pgstrom_data_store_insert_block refuses a block (negative result) when *)
(* the room left in the chunk may not hold a full block, or when the      *)
(* chunk has taken the number of blocks it has slots for, which can       *)
(* happen while the chunk holds no visible row                            *)
InsertBlockFits(pds, lim) ==
    /\ Len(pds.rows) + MaxBlockRows <= lim.rows
    /\ pds.nblocks < lim.blocks

InsertBlock(pds, rel, blk) ==
    [rows |-> pds.rows \o BlockRows(rel, blk), nblocks |-> pds.nblocks + 1]

(* faulty variants: a block the chunk has no room for is passed over; the *)
(* block cursor is advanced only past blocks that gave a row              *)
RECURSIVE FillChunkSkipsBlock(_, _, _, _, _)
FillChunkSkipsBlock(rel, last, lim, blk, pds) ==
    IF blk < last
    THEN IF InsertBlockFits(pds, lim)
         THEN FillChunkSkipsBlock(rel, last, lim, blk + 1,
                                  InsertBlock(pds, rel, blk))
         ELSE [blk |-> blk + 1, rows |-> pds.rows]
    ELSE [blk |-> blk, rows |-> pds.rows]

RECURSIVE FillChunkKeepsCursorOnEmpty(_, _, _, _, _)
FillChunkKeepsCursorOnEmpty(rel, last, lim, blk, pds) ==
    IF blk < last /\ InsertBlockFits(pds, lim) /\ BlockRows(rel, blk) # <<>>
    THEN FillChunkKeepsCursorOnEmpty(rel, last, lim, blk + 1,
                                     InsertBlock(pds, rel, blk))
    ELSE [blk |-> blk, rows |-> pds.rows]

(* lines 1715-1719: fill up this data-store *)
RECURSIVE FillChunk(_, _, _, _, _)
FillChunk(rel, last, lim, blk, pds) ==
    IF blk < last /\ InsertBlockFits(pds, lim)
    THEN FillChunk(rel, last, lim, blk + 1, InsertBlock(pds, rel, blk))
    ELSE [blk |-> blk, rows |-> pds.rows]

(* faulty variants: an empty chunk at the end of the relation becomes a   *)
(* Task; the end of the relation is tested with > instead of >=           *)
RECURSIVE NextChunkLoopKeepsEmpty(_, _, _, _)
NextChunkLoopKeepsEmpty(rel, last, lim, blk) ==
    LET f == FillChunk(rel, last, lim, blk, EmptyStore)
    IN  IF f.rows # <<>> \/ f.blk >= last
        THEN [ret |-> "task", blk |-> f.blk, rows |-> f.rows, iters |-> 1]
        ELSE IF f.blk = blk
        THEN [ret |-> "hang", blk |-> f.blk, rows |-> <<>>, iters |-> 1]
        ELSE LET r == NextChunkLoopKeepsEmpty(rel, last, lim, f.blk)
             IN  [r EXCEPT !.iters = @ + 1]

RECURSIVE NextChunkLoopEndsPastLast(_, _, _, _)
NextChunkLoopEndsPastLast(rel, last, lim, blk) ==
    LET f == FillChunk(rel, last, lim, blk, EmptyStore)
    IN  IF f.rows # <<>>
        THEN [ret |-> "task", blk |-> f.blk, rows |-> f.rows, iters |-> 1]
        ELSE IF f.blk > last
        THEN [ret |-> "null", blk |-> f.blk, rows |-> <<>>, iters |-> 1]
        ELSE IF f.blk = blk
        THEN [ret |-> "hang", blk |-> f.blk, rows |-> <<>>, iters |-> 1]
        ELSE LET r == NextChunkLoopEndsPastLast(rel, last, lim, f.blk)
             IN  [r EXCEPT !.iters = @ + 1]

(* lines 1701-1741: the retry loop; "task" when a chunk with rows was     *)
(* filled, "null" at the end of the relation, "hang" when an iteration    *)
(* makes no progress and the loop repeats it forever; iters counts the    *)
(* iterations of the loop                                                 *)
RECURSIVE NextChunkLoop(_, _, _, _)
NextChunkLoop(rel, last, lim, blk) ==
    LET f == FillChunk(rel, last, lim, blk, EmptyStore)
    IN  IF f.rows # <<>>
        THEN [ret |-> "task", blk |-> f.blk, rows |-> f.rows, iters |-> 1]
        ELSE IF f.blk >= last
        THEN [ret |-> "null", blk |-> f.blk, rows |-> <<>>, iters |-> 1]
        ELSE IF f.blk = blk
        THEN [ret |-> "hang", blk |-> f.blk, rows |-> <<>>, iters |-> 1]
        ELSE LET r == NextChunkLoop(rel, last, lim, f.blk)
             IN  [r EXCEPT !.iters = @ + 1]

(* gpuscan_next_chunk, lines 1683-1745 *)
GpuscanNextChunk(sc) ==
    IF sc.curr_blknum > sc.last_blknum
    THEN [ret |-> "null", blk |-> sc.curr_blknum, rows |-> <<>>, iters |-> 0]
    ELSE NextChunkLoop(sc.rel, sc.last_blknum,
                       [rows |-> sc.budget, blocks |-> sc.maxblocks],
                       sc.curr_blknum)

(* the kernels' result: the rows of the source chunk that satisfy the     *)
(* device qualifiers, in the order of the source chunk                    *)
DevQualOk(row) == row[3] \in {"pass", "dev_only"}
HostQualOk(row) == row[3] = "pass"

KernelVisible(src) == SelectSeq(src, DevQualOk)

(* the qualifier kernel is among the commands of the Task's submission *)
QualsLaunched(g) ==
    \E i \in 1 .. Len(ProcessCalls(g, CreateTask(g))) :
        ProcessCalls(g, CreateTask(g))[i] =
            Call("cuLaunchKernel", "gpuscan_exec_quals")

(* the rows of the source chunk the projection and the Consumer are to    *)
(* see: those the qualifier kernel marked, or every row when the Task is  *)
(* all-visible                                                            *)
VisibleRows(g, src) ==
    IF QualsLaunched(g) THEN KernelVisible(src)
    ELSE IF CreateTask(g).all_visible THEN src
    ELSE <<>>

(* create_pgstrom_gpuscan_task on a filled chunk, then the kernels: the   *)
(* destination chunk holds the visible rows; without one they are         *)
(* referenced through the result buffer                                   *)
ScanTask(g, src) ==
    [src |-> src, has_dst |-> HasDst(g),
     all_visible |-> CreateTask(g).all_visible,
     quals_launched |-> QualsLaunched(g),
     dst |-> IF HasDst(g) THEN VisibleRows(g, src) ELSE <<>>,
     kresults |-> IF HasDst(g) THEN <<>> ELSE VisibleRows(g, src)]

NoScanTask == [src |-> <<>>, has_dst |-> FALSE, all_visible |-> FALSE,
               quals_launched |-> FALSE, dst |-> <<>>, kresults |-> <<>>]

(* gpuscan_next_tuple, lines 1747-1799: pds_dst->kds is read whether or   *)
(* not the Task has a destination chunk                                   *)
GpuscanNextTuple(tsk, idx) ==
    IF ~tsk.has_dst
    THEN [slot |-> "fault", idx |-> idx]
    ELSE IF idx < Len(tsk.dst)
    THEN [slot |-> tsk.dst[idx + 1], idx |-> idx + 1]
    ELSE [slot |-> "None", idx |-> idx]

(* what a scan evaluated on the host alone returns: every row of the      *)
(* relation that satisfies all qualifiers, in block order                 *)
HostOnlyRows(rel) == SelectSeq(AllRows(rel, Len(rel)), HostQualOk)

(* ---- initial state of the chunked scan: after gpuscan_begin ----------- *)
DataConfigs == {g \in AllScanConfigs : ~g.pfm_enabled}

InitChunked(configs, budgets, blocklimits) ==
    /\ gss \in configs
    /\ \E rel \in Relations, budget \in budgets, maxblocks \in blocklimits :
         scan = [phase |-> "fetch", rel |-> rel, budget |-> budget,
                 maxblocks |-> maxblocks, iters |-> 0,
                 curr_blknum |-> 0, last_blknum |-> Len(rel),
                 curr_task |-> NoScanTask, curr_index |-> 0,
                 ret |-> "none", last_rows |-> <<>>, slot |-> "none",
                 exhausted |-> FALSE, fetched |-> <<>>,
                 loaded |-> <<>>, chunks |-> <<>>, out |-> <<>>,
                 ntasks |-> 0, endcalls |-> 0, rescans |-> 0]
    /\ plan = NoPlan
    /\ calc = NoCalc
    /\ task = [t \in Tasks |-> NoTask]
    /\ pending_tasks = <<>>
    /\ running_tasks = <<>>
    /\ completed_tasks = <<>>
    /\ num_running_tasks = 0
    /\ num_completed_tasks = 0
    /\ lock = LockFree
    /\ txn = TRUE
    /\ gts_mem = "live"
    /\ hostpc = "scan"
    /\ host_task = 0
    /\ launch = FALSE
    /\ devmem = {}
    /\ pfm_accum = 0
    /\ latch = FALSE
    /\ fault = {}
    /\ hist = [running_at_teardown |-> 0, teardown |-> "none",
               drained_locked |-> TRUE, last_fail |-> "none", steps |-> <<>>,
               rescans |-> 0]
    /\ calls = <<>>

(* in the scans of the data path a chunk has a slot for every block *)
InitData == InitChunked(DataConfigs, Budgets, {MaxBlocks})

ScanFrame ==
    UNCHANGED <<calc, plan, gss, task, pending_tasks, running_tasks,
                completed_tasks, num_running_tasks, num_completed_tasks,
                lock, txn, gts_mem, hostpc, host_task, launch, devmem,
                pfm_accum, latch, hist, calls>>

(* the blocks blk .. upto-1 in ascending order *)
BlockRange(blk, upto) == [i \in 1 .. upto - blk |-> blk + i - 1]

(* the host asks for the next chunk when it has no Task to drain, and     *)
(* again after the scan has ended                                         *)
ScanNextChunk ==
    /\ scan.phase \in {"fetch", "end"}
    /\ scan.phase = "end" => scan.endcalls < MaxEndCalls
    /\ LET r == GpuscanNextChunk(scan)
       IN  scan' = [scan EXCEPT
                !.ret = r.ret,
                !.iters = r.iters,
                !.last_rows = r.rows,
                !.curr_blknum = r.blk,
                !.loaded = @ \o BlockRange(scan.curr_blknum, r.blk),
                !.chunks = IF r.ret = "task" THEN Append(@, r.rows) ELSE @,
                !.ntasks = IF r.ret = "task" THEN @ + 1 ELSE @,
                !.curr_task = IF r.ret = "task"
                              THEN [NoScanTask EXCEPT !.src = r.rows]
                              ELSE NoScanTask,
                !.endcalls = IF scan.phase = "end" THEN @ + 1 ELSE @,
                !.phase = IF r.ret = "task" THEN "kernel"
                          ELSE IF r.ret = "null" THEN "end" ELSE "hang"]
    /\ fault' = fault
    /\ ScanFrame

(* the Task is submitted, completes, and becomes the current Task of the  *)
(* Consumer with the row cursor at 0                                      *)
ScanKernel ==
    /\ scan.phase = "kernel"
    /\ scan' = [scan EXCEPT
                  !.curr_task = ScanTask(gss, scan.curr_task.src),
                  !.curr_index = 0,
                  !.exhausted = FALSE,
                  !.fetched = <<>>,
                  !.slot = "none",
                  !.phase = "drain"]
    /\ fault' = fault
    /\ ScanFrame

(* gpuscan_next_tuple on the current Task; the executor keeps the row if  *)
(* it satisfies the host qualifiers of the plan                           *)
ScanNextTuple ==
    /\ scan.phase = "drain"
    /\ LET r == GpuscanNextTuple(scan.curr_task, scan.curr_index)
       IN  IF r.slot = "fault"
           THEN /\ scan' = [scan EXCEPT !.slot = "fault", !.phase = "crashed"]
                /\ fault' = fault \cup {"null_pointer", "crash"}
           ELSE /\ scan' = [scan EXCEPT
                      !.slot = r.slot,
                      !.curr_index = r.idx,
                      !.exhausted = (r.slot = "None"),
                      !.fetched = IF r.slot = "None" THEN @
                                  ELSE Append(@, r.slot),
                      !.out = IF r.slot # "None" /\ HostQualOk(r.slot)
                              THEN Append(@, r.slot) ELSE @]
                /\ fault' = fault
    /\ ScanFrame

(* the current Task is exhausted: the host releases it and goes for the   *)
(* next one                                                               *)
ScanAdvance ==
    /\ scan.phase = "drain"
    /\ scan.exhausted
    /\ scan' = [scan EXCEPT !.curr_task = NoScanTask, !.curr_index = 0,
                            !.exhausted = FALSE, !.fetched = <<>>,
                            !.slot = "none", !.phase = "fetch"]
    /\ fault' = fault
    /\ ScanFrame

(* gpuscan_rescan, lines 1856-1866 *)
ScanRescan ==
    /\ scan.phase \in {"fetch", "kernel", "drain", "end"}
    /\ scan.rescans < MaxRescans
    /\ scan' = [scan EXCEPT
                  !.curr_blknum = 0,
                  !.curr_task = NoScanTask, !.curr_index = 0,
                  !.exhausted = FALSE, !.fetched = <<>>, !.slot = "none",
                  !.ret = "none", !.iters = 0, !.last_rows = <<>>,
                  !.loaded = <<>>, !.chunks = <<>>, !.out = <<>>,
                  !.ntasks = 0, !.endcalls = 0,
                  !.rescans = @ + 1,
                  !.phase = "fetch"]
    /\ fault' = fault
    /\ ScanFrame

NextData ==
    \/ ScanNextChunk
    \/ ScanKernel
    \/ ScanNextTuple
    \/ ScanAdvance
    \/ ScanRescan

SpecData == InitData /\ [][NextData]_vars

(* ---- the producer alone, when a chunk may run out of block slots before *)
(* ---- it holds a row (a run of blocks without visible rows) ------------ *)
ChunkConfigs == {g \in DataConfigs : g.dev_quals /\ ~g.be_row_format
                                       /\ g.dev_projection}

BlockLimits == {1, MaxBlocks}

InitChunk == InitChunked(ChunkConfigs, Budgets, BlockLimits)

(* gpuscan_exec_bulk, lines 1824-1841: the same fill-and-retry loop, for  *)
(* a parent node that takes whole chunks; "pds" when a chunk with rows is *)
(* returned                                                               *)
RECURSIVE ExecBulkLoop(_, _, _, _)
ExecBulkLoop(rel, last, lim, blk) ==
    IF blk >= last
    THEN [ret |-> "null", blk |-> blk, rows |-> <<>>, iters |-> 0]
    ELSE LET f == FillChunk(rel, last, lim, blk, EmptyStore)
         IN  IF f.rows # <<>>
             THEN [ret |-> "pds", blk |-> f.blk, rows |-> f.rows,
                   iters |-> 1]
             ELSE IF f.blk = blk
             THEN [ret |-> "hang", blk |-> f.blk, rows |-> <<>>,
                   iters |-> 1]
             ELSE LET r == ExecBulkLoop(rel, last, lim, f.blk)
                  IN  [r EXCEPT !.iters = @ + 1]

ScanExecBulk ==
    /\ scan.phase \in {"fetch", "end"}
    /\ scan.phase = "end" => scan.endcalls < MaxEndCalls
    /\ LET r == ExecBulkLoop(scan.rel, scan.last_blknum,
                             [rows |-> scan.budget,
                              blocks |-> scan.maxblocks],
                             scan.curr_blknum)
       IN  scan' = [scan EXCEPT
                !.ret = r.ret,
                !.iters = r.iters,
                !.last_rows = r.rows,
                !.curr_blknum = r.blk,
                !.loaded = @ \o BlockRange(scan.curr_blknum, r.blk),
                !.chunks = IF r.ret = "pds" THEN Append(@, r.rows) ELSE @,
                !.endcalls = IF scan.phase = "end" THEN @ + 1 ELSE @,
                !.phase = IF r.ret = "pds" THEN "fetch"
                          ELSE IF r.ret = "null" THEN "end" ELSE "hang"]
    /\ fault' = fault
    /\ ScanFrame

NextChunked ==
    \/ NextData
    \/ ScanExecBulk

SpecChunk == InitChunk /\ [][NextChunked]_vars

(* ---- planner: distribution of the scan clauses ------------------------- *)

(* an expression is known by its identity and by whether the code          *)
(* generator can run it on the device; a RestrictInfo wraps an expression  *)
Exprs == [id : 1 .. MaxClauses, device_capable : BOOLEAN]
RestrictInfos == [clause : Exprs, pseudoconstant : BOOLEAN]

(* clause lists hold distinct clauses *)
ClauseLists ==
    UNION {{q \in [1 .. n -> RestrictInfos] :
               \A i \in 1 .. n : q[i].clause.id = i} : n \in 0 .. MaxClauses}

pgstrom_codegen_available_expression(expr) == expr.device_capable

IsDeviceClause(rinfo) == pgstrom_codegen_available_expression(rinfo.clause)
IsHostClause(rinfo) == ~pgstrom_codegen_available_expression(rinfo.clause)

(* the bare expressions of the RestrictInfos whose pseudoconstant flag is  *)
(* the one asked for, in list order                                        *)
extract_actual_clauses(rinfos, pseudoconstant) ==
    LET Wanted(r) == r.pseudoconstant = pseudoconstant
        kept == SelectSeq(rinfos, Wanted)
    IN  [i \in 1 .. Len(kept) |-> kept[i].clause]

(* faulty variant: clauses the device cannot run are left out *)
DistributeClausesDropsHost(clauses) ==
    [dev_quals |-> SelectSeq(clauses, IsDeviceClause), host_quals |-> <<>>]

(* lines 270-278 and 548-556: each RestrictInfo goes to dev_quals when the *)
(* code generator accepts its expression, to host_quals otherwise          *)
DistributeClauses(clauses) ==
    [dev_quals |-> SelectSeq(clauses, IsDeviceClause),
     host_quals |-> SelectSeq(clauses, IsHostClause)]

(* lines 480-523: the kernel evaluates the device qualifiers it is given,  *)
(* or returns true when there is none                                      *)
gpuscan_codegen_exec_quals(dev_quals) ==
    IF dev_quals # <<>>
    THEN [eval |-> "quals", exprs |-> dev_quals]
    ELSE [eval |-> "true", exprs |-> <<>>]

NoPath == [made |-> FALSE, bulkload |-> FALSE]

(* gpuscan_add_scan_path, lines 242-328, for an ordinary base relation *)
gpuscan_add_scan_path(enabled, baserestrictinfo, tlist_ok) ==
    IF ~enabled
    THEN NoPath
    ELSE LET d == DistributeClauses(baserestrictinfo)
         IN  IF d.dev_quals = <<>>
             THEN NoPath
             ELSE [made |-> TRUE,
                   bulkload |-> (d.host_quals = <<>>) /\ tlist_ok]

(* create_gpuscan_plan, lines 527-596 *)
create_gpuscan_plan(best_path, clauses) ==
    LET d == DistributeClauses(clauses)
        host_quals == extract_actual_clauses(d.host_quals, FALSE)
        dev_quals == extract_actual_clauses(d.dev_quals, FALSE)
    IN  [qual |-> host_quals,
         dev_quals |-> dev_quals,
         kern_source |-> gpuscan_codegen_exec_quals(dev_quals),
         bulkload |-> best_path.bulkload]

NoCScan == [qual |-> <<>>, dev_quals |-> <<>>,
            kern_source |-> [eval |-> "none", exprs |-> <<>>],
            bulkload |-> FALSE]

(* the planner's input: the restriction clauses of the relation, followed  *)
(* by the clauses create_scan_plan adds for a parameterized scan           *)
InitPlan ==
    /\ gss \in {g \in ScanConfigs : ~g.pfm_enabled
                   /\ g.max_async_tasks = pgstrom_max_async_tasks}
    /\ calc = NoCalc
    /\ scan = NoScan
    /\ \E clauses \in ClauseLists, enabled \in BOOLEAN, tlist_ok \in BOOLEAN :
         \E nbase \in 0 .. Len(clauses) :
            plan = [phase |-> "input",
                    enabled |-> enabled, tlist_ok |-> tlist_ok,
                    baserestrictinfo |-> SubSeq(clauses, 1, nbase),
                    clauses |-> clauses,
                    path |-> NoPath, cscan |-> NoCScan]
    /\ task = [t \in Tasks |-> NoTask]
    /\ pending_tasks = <<>>
    /\ running_tasks = <<>>
    /\ completed_tasks = <<>>
    /\ num_running_tasks = 0
    /\ num_completed_tasks = 0
    /\ lock = LockFree
    /\ txn = TRUE
    /\ gts_mem = "live"
    /\ hostpc = "plan"
    /\ host_task = 0
    /\ launch = FALSE
    /\ devmem = {}
    /\ pfm_accum = 0
    /\ latch = FALSE
    /\ fault = {}
    /\ hist = [running_at_teardown |-> 0, teardown |-> "none",
               drained_locked |-> TRUE, last_fail |-> "none", steps |-> <<>>,
               rescans |-> 0]
    /\ calls = <<>>

PlanFrame ==
    UNCHANGED <<calc, scan, gss, task, pending_tasks, running_tasks,
                completed_tasks, num_running_tasks, num_completed_tasks,
                lock, txn, gts_mem, hostpc, host_task, launch, devmem,
                pfm_accum, latch, fault, hist, calls>>

(* the set_rel_pathlist hook *)
PlanAddScanPath ==
    /\ plan.phase = "input"
    /\ LET p == gpuscan_add_scan_path(plan.enabled, plan.baserestrictinfo,
                                      plan.tlist_ok)
       IN  plan' = [plan EXCEPT !.path = p,
                       !.phase = IF p.made THEN "path" ELSE "nopath"]
    /\ PlanFrame

(* the PlanCustomPath callback, when the GpuScan path was chosen *)
PlanCreate ==
    /\ plan.phase = "path"
    /\ plan' = [plan EXCEPT
                  !.cscan = create_gpuscan_plan(plan.path, plan.clauses),
                  !.phase = "planned"]
    /\ PlanFrame

NextPlan ==
    \/ PlanAddScanPath
    \/ PlanCreate

SpecPlan == InitPlan /\ [][NextPlan]_vars

(* ======================================================================= *)
(* Device memory of a Task: __pgstrom_process_gpuscan, lines 2102-2121    *)
(* ======================================================================= *)
Lengths == 1 .. MaxLength

(* gpuMemAlloc returns an aligned device address, or 0 when out of memory *)
DeviceAddresses == {0, GpuMemAlignment, 2 * GpuMemAlignment}

NoLayout == [length |-> 0, m_gpuscan |-> 0, m_kds_src |-> 0, m_kds_dst |-> 0]

(* a Task about to be submitted: the lengths of its control block and of  *)
(* its chunks                                                             *)
InitLayout ==
    /\ gss \in DataConfigs
    /\ \E kl \in Lengths, sl \in Lengths, dl \in Lengths :
         calc = [phase |-> "created", has_dst |-> HasDst(gss),
                 kern_length |-> kl, src_length |-> sl,
                 dst_length |-> IF HasDst(gss) THEN dl ELSE 0,
                 allocs |-> 0, lay |-> NoLayout]
    /\ scan = NoScan
    /\ plan = NoPlan
    /\ task = [t \in Tasks |-> NoTask]
    /\ pending_tasks = <<>>
    /\ running_tasks = <<>>
    /\ completed_tasks = <<>>
    /\ num_running_tasks = 0
    /\ num_completed_tasks = 0
    /\ lock = LockFree
    /\ txn = TRUE
    /\ gts_mem = "live"
    /\ hostpc = "layout"
    /\ host_task = 0
    /\ launch = FALSE
    /\ devmem = {}
    /\ pfm_accum = 0
    /\ latch = FALSE
    /\ fault = {}
    /\ hist = [running_at_teardown |-> 0, teardown |-> "none",
               drained_locked |-> TRUE, last_fail |-> "none", steps |-> <<>>,
               rescans |-> 0]
    /\ calls = <<>>

CalcFrame ==
    UNCHANGED <<scan, plan, gss, task, pending_tasks, running_tasks,
                completed_tasks, num_running_tasks, num_completed_tasks,
                lock, txn, gts_mem, hostpc, host_task, launch, devmem,
                pfm_accum, latch, fault, hist, calls>>

(* lines 2102-2121: one gpuMemAlloc, then the pointers; a null address    *)
(* takes the out_of_resource exit, where the cleanup nulls the pointers   *)
LayoutAlloc ==
    /\ calc.phase = "created"
    /\ \E base \in DeviceAddresses :
         LET lay == DeviceLayout(base, calc.kern_length, calc.src_length,
                                 calc.dst_length, calc.has_dst)
         IN  calc' = [calc EXCEPT
                        !.allocs = @ + 1,
                        !.lay = IF base = 0
                                THEN [NoLayout EXCEPT !.length = lay.length]
                                ELSE lay,
                        !.phase = IF base = 0 THEN "out_of_resource"
                                  ELSE "allocated"]
    /\ CalcFrame

(* the out_of_resource exit makes the Task retryable *)
LayoutRetry ==
    /\ calc.phase = "out_of_resource"
    /\ calc.allocs < MaxCalls
    /\ calc' = [calc EXCEPT !.phase = "created", !.lay = NoLayout]
    /\ CalcFrame

NextLayout ==
    \/ LayoutAlloc
    \/ LayoutRetry

SpecLayout == InitLayout /\ [][NextLayout]_vars

(* ======================================================================= *)
(* Projection widths: build_device_projection (1378-1425), the plan's      *)
(* private list (84-120), gpuscan_begin (1536-1580) and the destination   *)
(* chunk of create_pgstrom_gpuscan_task (1617-1650)                        *)
(* ======================================================================= *)
MaxAtts == 2          \* attributes of the relation, entries of scan_tlist
MaxItems == 2         \* rows in a source chunk

(* pg_attribute.attlen: -1 is a variable-length attribute *)
AttLens == {-1, 4, 8}

TypeOids == {"NUMERICOID", "INT4OID", "INTERVALOID", "TEXTOID"}

(* get_typlenbyval() of the catalog for the types above *)
get_typlen(type_oid) ==
    CASE type_oid = "INT4OID" -> 4
      [] type_oid = "INTERVALOID" -> 16
      [] OTHER -> -1

get_typbyval(type_oid) == type_oid = "INT4OID"

TupleDescs == UNION {[1 .. n -> AttLens] : n \in 1 .. MaxAtts}

ScanTlists == UNION {[1 .. n -> TypeOids] : n \in 1 .. MaxAtts}

Max(a, b) == IF a > b THEN a ELSE b

(* lines 1388-1395: for (attnum=1; attnum < tupdesc->natts; attnum++) *)
RECURSIVE BaseFixedWidth(_, _)
BaseFixedWidth(attrs, attnum) ==
    IF ~(attnum < Len(attrs)) THEN 0
    ELSE (IF attrs[attnum] < 0 THEN 0 ELSE attrs[attnum])
         + BaseFixedWidth(attrs, attnum + 1)

(* lines 1397-1418: foreach (lc, scan_tlist); result <<fixed, extra>> *)
RECURSIVE ProjWidths(_, _)
ProjWidths(scan_tlist, i) ==
    IF i > Len(scan_tlist) THEN <<0, 0>>
    ELSE LET rest == ProjWidths(scan_tlist, i + 1)
             type_oid == scan_tlist[i]
             type_len == get_typlen(type_oid)
         IN  CASE type_oid = "NUMERICOID" -> <<rest[1] + 32, rest[2] + 32>>
               [] type_len < 0 -> rest
               [] OTHER -> <<rest[1] + type_len,
                             rest[2] + IF get_typbyval(type_oid)
                                       THEN 0 ELSE type_len>>

(* create_gpuscan_plan clears gs_info (memset); build_device_projection    *)
(* leaves it alone when no device projection is needed (line 1381)        *)
build_device_projection(tupdesc, scan_tlist, with_gpu_projection) ==
    IF ~with_gpu_projection
    THEN [custom_scan_tlist |-> <<>>, base_fixed_width |-> 0,
          proj_fixed_width |-> 0, proj_extra_width |-> 0]
    ELSE [custom_scan_tlist |-> scan_tlist,
          base_fixed_width |-> BaseFixedWidth(tupdesc, 1),
          proj_fixed_width |-> ProjWidths(scan_tlist, 1)[1],
          proj_extra_width |-> ProjWidths(scan_tlist, 1)[2]]

(* lines 92-94: the widths as Integer nodes of custom_private *)
form_gpuscan_info(gs_info) ==
    <<gs_info.base_fixed_width, gs_info.proj_fixed_width,
      gs_info.proj_extra_width>>

(* lines 116-118 *)
deform_gpuscan_info(privs) ==
    [base_fixed_width |-> privs[1], proj_fixed_width |-> privs[2],
     proj_extra_width |-> privs[3]]

(* gpuscan_create_scan_state (palloc0, line 1520) and gpuscan_begin: the  *)
(* deformed gs_info is read for dev_quals, used_params, kern_source and    *)
(* extra_flags only; the three widths of the scan state keep their zeroes  *)
GpuscanBeginWidths(custom_scan_tlist, gs_info) ==
    [dev_projection |-> custom_scan_tlist # <<>>,
     base_fixed_width |-> 0,
     proj_fixed_width |-> 0,
     proj_extra_width |-> 0]

NoDst == [exists |-> FALSE, format |-> "none", length |-> 0, extra |-> 0]

(* lines 1617-1650: the destination chunk of a Task *)
CreateDstChunk(w, be_row_format, src_length, nitems) ==
    IF be_row_format
    THEN IF ~w.dev_projection
         THEN NoDst
         ELSE [exists |-> TRUE, format |-> "row",
               length |-> src_length
                          + Max(w.proj_fixed_width - w.base_fixed_width, 0)
                            * nitems,
               extra |-> 0]
    ELSE [exists |-> TRUE, format |-> "slot", length |-> 0,
          extra |-> w.proj_extra_width * nitems]

InitWidths ==
    /\ gss \in DataConfigs
    /\ \E tupdesc \in TupleDescs, scan_tlist \in ScanTlists :
         calc = [phase |-> "planning", tupdesc |-> tupdesc,
                 scan_tlist |-> scan_tlist]
    /\ scan = NoScan
    /\ plan = NoPlan
    /\ task = [t \in Tasks |-> NoTask]
    /\ pending_tasks = <<>>
    /\ running_tasks = <<>>
    /\ completed_tasks = <<>>
    /\ num_running_tasks = 0
    /\ num_completed_tasks = 0
    /\ lock = LockFree
    /\ txn = TRUE
    /\ gts_mem = "live"
    /\ hostpc = "widths"
    /\ host_task = 0
    /\ launch = FALSE
    /\ devmem = {}
    /\ pfm_accum = 0
    /\ latch = FALSE
    /\ fault = {}
    /\ hist = [running_at_teardown |-> 0, teardown |-> "none",
               drained_locked |-> TRUE, last_fail |-> "none", steps |-> <<>>,
               rescans |-> 0]
    /\ calls = <<>>

(* pgstrom_post_planner_gpuscan, lines 1436-1490 *)
WidthsPostPlanner ==
    /\ calc.phase = "planning"
    /\ LET gs_info == build_device_projection(calc.tupdesc, calc.scan_tlist,
                                              gss.dev_projection)
       IN  calc' = [phase |-> "planned",
                    tupdesc |-> calc.tupdesc,
                    custom_scan_tlist |-> gs_info.custom_scan_tlist,
                    custom_private |-> form_gpuscan_info(gs_info)]
    /\ CalcFrame

(* gpuscan_begin, lines 1536-1580 *)
WidthsBegin ==
    /\ calc.phase = "planned"
    /\ calc' = [phase |-> "begun",
                custom_private |-> calc.custom_private,
                widths |-> GpuscanBeginWidths(
                               calc.custom_scan_tlist,
                               deform_gpuscan_info(calc.custom_private))]
    /\ CalcFrame

(* create_pgstrom_gpuscan_task on a source chunk *)
WidthsCreateTask ==
    /\ calc.phase = "begun"
    /\ \E src_length \in Lengths, nitems \in 0 .. MaxItems :
         calc' = [phase |-> "task",
                  custom_private |-> calc.custom_private,
                  src_length |-> src_length, nitems |-> nitems,
                  dst |-> CreateDstChunk(calc.widths, gss.be_row_format,
                                         src_length, nitems)]
    /\ CalcFrame

NextWidths ==
    \/ WidthsPostPlanner
    \/ WidthsBegin
    \/ WidthsCreateTask

SpecWidths == InitWidths /\ [][NextWidths]_vars

(* ======================================================================= *)
(* The generated projection function: gpuscan_codegen_projection, step 4   *)
(* (lines 902-986, the sizing of the variable-length buffer) and steps 5   *)
(* and 6 (lines 988-1139, the stores of the slot and of the row format)    *)
(* ======================================================================= *)
(* an entry of scan_tlist: a bare Var, or an expression of a device type;  *)
(* a device expression never yields a varlena (Assert at 952 and 1043)     *)
TargetEntries ==
    {[is_var |-> TRUE, type_oid |-> "INT4OID"]}
    \cup [is_var : {FALSE},
          type_oid : {"NUMERICOID", "INT4OID", "INTERVALOID"}]

CodegenTlists == UNION {[1 .. n -> TargetEntries] : n \in 1 .. MaxAtts}

(* dtype->type_align of the by-reference device type *)
get_typalign(type_oid) == IF type_oid = "INTERVALOID" THEN 8 ELSE 4

TYPEALIGN(alignval, len) ==
    ((len + alignval - 1) \div alignval) * alignval

MAXALIGN(len) == TYPEALIGN(8, len)

(* a generated statement that advances through the variable-length       *)
(* buffer: "if (!temp_N_v.isnull) { align; ...; advance by the length }"  *)
VlStmt(resno, alignval, len, is_numeric) ==
    [resno |-> resno, null_check |-> TRUE, alignval |-> alignval,
     len |-> len, is_numeric |-> is_numeric]

(* lines 920-956: the statements of the sizing pass *)
RECURSIVE SizingPass(_, _)
SizingPass(scan_tlist, i) ==
    IF i > Len(scan_tlist) THEN <<>>
    ELSE LET tle == scan_tlist[i]
             rest == SizingPass(scan_tlist, i + 1)
         IN  IF tle.is_var THEN rest
             ELSE IF tle.type_oid = "NUMERICOID"
             THEN <<VlStmt(i, 4, 0, TRUE)>> \o rest
             ELSE IF ~get_typbyval(tle.type_oid)
             THEN <<VlStmt(i, get_typalign(tle.type_oid),
                           get_typlen(tle.type_oid), FALSE)>> \o rest
             ELSE rest

(* lines 997-1056: the stores of the slot format that go through vl_buf *)
RECURSIVE SlotWritePass(_, _)
SlotWritePass(scan_tlist, i) ==
    IF i > Len(scan_tlist) THEN <<>>
    ELSE LET tle == scan_tlist[i]
             rest == SlotWritePass(scan_tlist, i + 1)
         IN  IF tle.is_var THEN rest
             ELSE IF tle.type_oid = "NUMERICOID"
             THEN <<VlStmt(i, 4, 0, TRUE)>> \o rest
             ELSE IF get_typbyval(tle.type_oid) THEN rest
             ELSE <<VlStmt(i, get_typalign(tle.type_oid),
                           get_typlen(tle.type_oid), FALSE)>> \o rest

(* lines 1074-1129: the stores of the row format that go through vl_buf;  *)
(* a numeric stays in its internal form (tup_internal)                    *)
RECURSIVE RowWritePass(_, _)
RowWritePass(scan_tlist, i) ==
    IF i > Len(scan_tlist) THEN <<>>
    ELSE LET tle == scan_tlist[i]
             rest == RowWritePass(scan_tlist, i + 1)
         IN  IF tle.is_var THEN rest
             ELSE IF tle.type_oid = "NUMERICOID" THEN rest
             ELSE IF get_typbyval(tle.type_oid) THEN rest
             ELSE <<VlStmt(i, get_typalign(tle.type_oid),
                           get_typlen(tle.type_oid), FALSE)>> \o rest

(* line 661: bool needs_vlbuf = false; nothing assigns it afterwards *)
needs_vlbuf(scan_tlist) == FALSE

(* lines 985-986: the sizing pass, which also declares vl_len and vl_buf, *)
(* goes into the body only if needs_vlbuf                                 *)
gpuscan_codegen_projection(scan_tlist) ==
    [sizing_emitted |-> needs_vlbuf(scan_tlist),
     sizing |-> SizingPass(scan_tlist, 1),
     slot_write |-> SlotWritePass(scan_tlist, 1),
     row_write |-> RowWritePass(scan_tlist, 1)]

(* the generated statements run on one row: isnull[resno] is the null     *)
(* flag of temp_resno_v, numeric_len what pg_numeric_to_varlena returns;  *)
(* the result is the offset reached from the offset pos                   *)
RECURSIVE RunVlStmts(_, _, _, _)
RunVlStmts(stmts, isnull, numeric_len, pos) ==
    IF stmts = <<>> THEN pos
    ELSE LET st == Head(stmts)
             len == IF st.is_numeric THEN numeric_len ELSE st.len
         IN  RunVlStmts(Tail(stmts), isnull, numeric_len,
                        IF st.null_check /\ isnull[st.resno] THEN pos
                        ELSE TYPEALIGN(st.alignval, pos) + len)

InitCodegen ==
    /\ gss \in DataConfigs
    /\ gss.dev_projection
    /\ \E scan_tlist \in CodegenTlists :
         calc = [phase |-> "tlist", scan_tlist |-> scan_tlist]
    /\ scan = NoScan
    /\ plan = NoPlan
    /\ task = [t \in Tasks |-> NoTask]
    /\ pending_tasks = <<>>
    /\ running_tasks = <<>>
    /\ completed_tasks = <<>>
    /\ num_running_tasks = 0
    /\ num_completed_tasks = 0
    /\ lock = LockFree
    /\ txn = TRUE
    /\ gts_mem = "live"
    /\ hostpc = "codegen"
    /\ host_task = 0
    /\ launch = FALSE
    /\ devmem = {}
    /\ pfm_accum = 0
    /\ latch = FALSE
    /\ fault = {}
    /\ hist = [running_at_teardown |-> 0, teardown |-> "none",
               drained_locked |-> TRUE, last_fail |-> "none", steps |-> <<>>,
               rescans |-> 0]
    /\ calls = <<>>

(* pgstrom_post_planner_gpuscan, line 1466 *)
CodegenProjection ==
    /\ calc.phase = "tlist"
    /\ calc' = [phase |-> "generated", scan_tlist |-> calc.scan_tlist,
                code |-> gpuscan_codegen_projection(calc.scan_tlist)]
    /\ CalcFrame

(* the generated function projects one row: the sizing pass, if it is in  *)
(* the body, runs in the slot branch and reserves MAXALIGN(vl_len) bytes, *)
(* then the stores of the format advance vl_buf from the start of the      *)
(* reservation                                                             *)
CodegenRunRow ==
    /\ calc.phase = "generated"
    /\ \E isnull \in [1 .. Len(calc.scan_tlist) -> BOOLEAN],
          numeric_len \in Lengths :
         LET code == calc.code
             vl_len == IF code.sizing_emitted /\ ~gss.be_row_format
                       THEN RunVlStmts(code.sizing, isnull, numeric_len, 0)
                       ELSE 0
             stores == IF gss.be_row_format THEN code.row_write
                       ELSE code.slot_write
         IN  calc' = [phase |-> "projected", scan_tlist |-> calc.scan_tlist,
                      code |-> code, isnull |-> isnull,
                      vl_len |-> vl_len,
                      reserved |-> MAXALIGN(vl_len),
                      written |-> RunVlStmts(stores, isnull, numeric_len, 0)]
    /\ CalcFrame

NextCodegen ==
    \/ CodegenProjection
    \/ CodegenRunRow

SpecCodegen == InitCodegen /\ [][NextCodegen]_vars

(* ======================================================================= *)
(* The host buffer of a Task and the copy of the control block back from   *)
(* the device: create_pgstrom_gpuscan_task (1652-1678) and the Recv DMA    *)
(* call of __pgstrom_process_gpuscan (2243-2258)                           *)
(* ======================================================================= *)
STROMALIGN(len) == TYPEALIGN(16, len)

(* offsetof(kern_resultbuf, results[nitems]): the header, then one cl_int  *)
(* per result slot *)
ResultbufLength(head, nitems) == head + 4 * nitems

(* line 1658: results[pds_dst ? 0 : kds_src->nitems] *)
AllocSlots(has_dst, nitems) == IF has_dst THEN 0 ELSE nitems

(* faulty variant: the receive length counts a slot for every source row *)
RecvSlotsIgnoresDst(has_dst, nitems) == nitems

(* line 2247: pds_dst ? 0 : pds_src->kds->nitems *)
RecvSlots(has_dst, nitems) == IF has_dst THEN 0 ELSE nitems

(* lines 1655-1659: the bytes MemoryContextAllocZero is asked for *)
HostTaskLength(lay, kparams_length, has_dst, nitems) ==
    STROMALIGN(lay.kern + lay.kparams)
    + STROMALIGN(kparams_length)
    + STROMALIGN(ResultbufLength(lay.results, AllocSlots(has_dst, nitems)))

(* the result buffer follows the aligned parameter buffer in the control  *)
(* block; the receive starts there *)
KERN_GPUSCAN_DMARECV_OFFSET(lay, kparams_length) ==
    lay.kparams + STROMALIGN(kparams_length)

KERN_GPUSCAN_DMARECV_LENGTH(lay, nitems) ==
    STROMALIGN(ResultbufLength(lay.results, nitems))

(* the struct layouts: the offset of kern in pgstrom_gpuscan, of kparams   *)
(* in kern_gpuscan, of results[] in kern_resultbuf                         *)
StructLayouts == [kern : {32, 48}, kparams : {16, 32}, results : {20, 24}]

InitRecv ==
    /\ gss \in DataConfigs
    /\ \E lay \in StructLayouts, kparams_length \in Lengths,
          nitems \in 0 .. MaxItems :
         calc = [phase |-> "chunk", lay |-> lay,
                 kparams_length |-> kparams_length, nitems |-> nitems]
    /\ scan = NoScan
    /\ plan = NoPlan
    /\ task = [t \in Tasks |-> NoTask]
    /\ pending_tasks = <<>>
    /\ running_tasks = <<>>
    /\ completed_tasks = <<>>
    /\ num_running_tasks = 0
    /\ num_completed_tasks = 0
    /\ lock = LockFree
    /\ txn = TRUE
    /\ gts_mem = "live"
    /\ hostpc = "recv"
    /\ host_task = 0
    /\ launch = FALSE
    /\ devmem = {}
    /\ pfm_accum = 0
    /\ latch = FALSE
    /\ fault = {}
    /\ hist = [running_at_teardown |-> 0, teardown |-> "none",
               drained_locked |-> TRUE, last_fail |-> "none", steps |-> <<>>,
               rescans |-> 0]
    /\ calls = <<>>

(* create_pgstrom_gpuscan_task: the host buffer of the Task *)
RecvCreateTask ==
    /\ calc.phase = "chunk"
    /\ calc' = [phase |-> "created", lay |-> calc.lay,
                kparams_length |-> calc.kparams_length,
                nitems |-> calc.nitems,
                has_dst |-> HasDst(gss),
                alloc_slots |-> AllocSlots(HasDst(gss), calc.nitems),
                host_length |-> HostTaskLength(calc.lay, calc.kparams_length,
                                               HasDst(gss), calc.nitems)]
    /\ CalcFrame

(* __pgstrom_process_gpuscan: cuMemcpyDtoHAsync of the control block to    *)
(* the address of gpuscan->kern plus offset                                *)
RecvCopy ==
    /\ calc.phase = "created"
    /\ LET slots == RecvSlots(calc.has_dst, calc.nitems)
           offset == KERN_GPUSCAN_DMARECV_OFFSET(calc.lay,
                                                 calc.kparams_length)
           length == KERN_GPUSCAN_DMARECV_LENGTH(calc.lay, slots)
       IN  calc' = [phase |-> "received", nitems |-> calc.nitems,
                    has_dst |-> calc.has_dst,
                    alloc_slots |-> calc.alloc_slots,
                    host_length |-> calc.host_length,
                    recv_slots |-> slots,
                    recv_begin |-> calc.lay.kern + offset,
                    recv_end |-> calc.lay.kern + offset + length]
    /\ CalcFrame

NextRecv ==
    \/ RecvCreateTask
    \/ RecvCopy

SpecRecv == InitRecv /\ [][NextRecv]_vars

(* ======================================================================= *)
(* gstore_fdw: gstoreGetForeignRelSize splits baserestrictinfo into device *)
(* and host qualifiers (gstore_fdw.c, lines 148-170 and 185-202)           *)
(* ======================================================================= *)
(* a restriction clause of the foreign table: its expression, and whether  *)
(* it references a compressed column (bms_overlap(varattnos, compressed))  *)
GstoreRestrictInfos ==
    [clause : Exprs, pseudoconstant : {FALSE}, compressed : BOOLEAN]

GstoreClauseLists ==
    UNION {{q \in [1 .. n -> GstoreRestrictInfos] :
               \A i \in 1 .. n : q[i].clause.id = i} : n \in 0 .. MaxClauses}

pgstrom_device_expression(expr) == expr.device_capable

(* Lists are objects of the heap; a reference of 0 is NIL.  lappend makes  *)
(* a new list out of NIL, and otherwise appends to the list in place and   *)
(* returns the reference it was given.                                     *)
lappend(heap, list, datum) ==
    IF list = 0
    THEN [heap |-> Append(heap, <<datum>>), list |-> Len(heap) + 1]
    ELSE [heap |-> [heap EXCEPT ![list] = Append(@, datum)], list |-> list]

(* the elements of a list *)
ListOf(heap, list) == IF list = 0 THEN <<>> ELSE heap[list]

(* lines 149-170: one iteration of foreach (lc, baserel->baserestrictinfo) *)
GstorePickupQual(st, rinfo) ==
    LET r == lappend(st.heap, st.dev_quals, rinfo)
    IN  IF pgstrom_device_expression(rinfo.clause)
        THEN IF ~rinfo.compressed
             THEN \* dev_quals = lappend(dev_quals, rinfo)
                  [st EXCEPT !.heap = r.heap, !.dev_quals = r.list]
             ELSE \* host_quals = lappend(dev_quals, rinfo)
                  [st EXCEPT !.heap = r.heap, !.host_quals = r.list]
        ELSE \* host_quals = lappend(dev_quals, rinfo)
             [st EXCEPT !.heap = r.heap, !.host_quals = r.list]

InitGstore ==
    /\ gss \in {g \in ScanConfigs : ~g.pfm_enabled
                   /\ g.max_async_tasks = pgstrom_max_async_tasks}
    /\ calc = NoCalc
    /\ scan = NoScan
    /\ \E clauses \in GstoreClauseLists :
         plan = [phase |-> "relsize", baserestrictinfo |-> clauses,
                 next |-> 1, heap |-> <<>>, dev_quals |-> 0,
                 host_quals |-> 0]
    /\ task = [t \in Tasks |-> NoTask]
    /\ pending_tasks = <<>>
    /\ running_tasks = <<>>
    /\ completed_tasks = <<>>
    /\ num_running_tasks = 0
    /\ num_completed_tasks = 0
    /\ lock = LockFree
    /\ txn = TRUE
    /\ gts_mem = "live"
    /\ hostpc = "plan"
    /\ host_task = 0
    /\ launch = FALSE
    /\ devmem = {}
    /\ pfm_accum = 0
    /\ latch = FALSE
    /\ fault = {}
    /\ hist = [running_at_teardown |-> 0, teardown |-> "none",
               drained_locked |-> TRUE, last_fail |-> "none", steps |-> <<>>,
               rescans |-> 0]
    /\ calls = <<>>

(* the loop picks up the next clause *)
GstorePickup ==
    /\ plan.phase = "relsize"
    /\ plan.next <= Len(plan.baserestrictinfo)
    /\ plan' = [GstorePickupQual(plan, plan.baserestrictinfo[plan.next])
                  EXCEPT !.next = plan.next + 1]
    /\ PlanFrame

(* lines 200-202: the bare clauses go into the GpuStoreFdwInfo *)
GstoreStoreQuals ==
    /\ plan.phase = "relsize"
    /\ plan.next > Len(plan.baserestrictinfo)
    /\ plan' = [phase |-> "sized",
                baserestrictinfo |-> plan.baserestrictinfo,
                gsf_host_quals |->
                    extract_actual_clauses(
                        ListOf(plan.heap, plan.host_quals), FALSE),
                gsf_dev_quals |->
                    extract_actual_clauses(
                        ListOf(plan.heap, plan.dev_quals), FALSE)]
    /\ PlanFrame

NextGstore ==
    \/ GstorePickup
    \/ GstoreStoreQuals

SpecGstore == InitGstore /\ [][NextGstore]_vars

(* ======================================================================= *)
(* The target lists of the device projection: insert_unique_expression     *)
(* (1201-1224), replace_varnode_with_scan_tlist (1158-1199) and the loop   *)
(* of build_device_projection over the old target list (1250-1382)         *)
(* ======================================================================= *)
AttrNumbers == 1 .. MaxAtts

(* whole-row reference *)
InvalidAttrNumber == 0

(* the expressions of a target list: a Var of the scanned relation (with   *)
(* the type of the attribute, or another one), an expression the device    *)
(* can run, any other expression; refs are the attributes referenced       *)
VarExprs == [kind : {"Var"}, varattno : {InvalidAttrNumber} \cup AttrNumbers,
             vartype_matches : BOOLEAN]

DeviceExprs == [kind : {"device"}, refs : SUBSET AttrNumbers]

HostExprs ==
    [kind : {"host"}, refs : SUBSET ({InvalidAttrNumber} \cup AttrNumbers)]

TlistExprs == VarExprs \cup DeviceExprs \cup HostExprs

TargetLists == UNION {[1 .. n -> TlistExprs] : n \in 1 .. MaxAtts}

(* makeVar(varno, attr->attnum, attr->atttypid, ...) *)
makeVar(varattno) ==
    [kind |-> "Var", varattno |-> varattno, vartype_matches |-> TRUE]

(* makeVar(INDEX_VAR, resno, ...): a reference to an entry of scan_tlist *)
makeIndexVar(resno) == [kind |-> "INDEX_VAR", varattno |-> resno]

makeTargetEntry(expr, resno) == [expr |-> expr, resno |-> resno]

(* faulty variant: the expression is appended without looking for it *)
InsertAlwaysAppends(expr, scan_tlist) ==
    [scan_tlist |-> Append(scan_tlist,
                           makeTargetEntry(expr, Len(scan_tlist) + 1)),
     resno |-> Len(scan_tlist) + 1]

(* lines 1201-1224: the resno of the entry equal to expr, appending it if  *)
(* there is none; the result holds the list and the returned number        *)
insert_unique_expression(expr, scan_tlist) ==
    LET found == {i \in 1 .. Len(scan_tlist) : scan_tlist[i].expr = expr}
    IN  IF found # {}
        THEN [scan_tlist |-> scan_tlist,
              resno |-> scan_tlist[CHOOSE i \in found :
                                      \A j \in found : i <= j].resno]
        ELSE [scan_tlist |-> Append(scan_tlist,
                                    makeTargetEntry(expr,
                                                    Len(scan_tlist) + 1)),
              resno |-> Len(scan_tlist) + 1]

(* lines 1158-1199, for one Var of the expression: the resno of the first  *)
(* Var entry of scan_tlist with the same varattno, 0 for the elog(ERROR)   *)
ReplaceVarnode(varattno, scan_tlist) ==
    LET found == {i \in 1 .. Len(scan_tlist) :
                     /\ scan_tlist[i].expr.kind = "Var"
                     /\ scan_tlist[i].expr.varattno = varattno}
    IN  IF found = {} THEN 0
        ELSE scan_tlist[CHOOSE i \in found : \A j \in found : i <= j].resno

(* faulty variant: the Vars of a host expression are not put on scan_tlist *)
RECURSIVE AddVarnodesSkips(_, _, _)
AddVarnodesSkips(refs, prev, scan_tlist) == scan_tlist

(* lines 1343-1362: the Vars of a host expression go onto scan_tlist, in   *)
(* the order of bms_next_member *)
RECURSIVE AddVarnodes(_, _, _)
AddVarnodes(refs, prev, scan_tlist) ==
    LET larger == {a \in refs : a > prev}
    IN  IF larger = {} THEN scan_tlist
        ELSE LET anum == CHOOSE a \in larger : \A b \in larger : a <= b
             IN  AddVarnodes(refs, anum,
                     insert_unique_expression(makeVar(anum),
                                              scan_tlist).scan_tlist)

(* lines 1250-1376: the loop over the old target list; st carries          *)
(* scan_tlist, tlist_new, with_gpu_projection and whether the function has *)
(* returned false on a whole-row reference                                 *)
RECURSIVE ProjectTargetList(_, _, _, _)
ProjectTargetList(natts, tlist_old, attnum, st) ==
    IF attnum > Len(tlist_old) \/ st.bailed THEN st
    ELSE
    LET expr == tlist_old[attnum]
        resno_new == Len(st.tlist_new) + 1
    IN  IF expr.kind = "Var"
        THEN IF expr.varattno = InvalidAttrNumber
             THEN [st EXCEPT !.bailed = TRUE]
             ELSE LET ins == insert_unique_expression(expr, st.scan_tlist)
                  IN  ProjectTargetList(natts, tlist_old, attnum + 1,
                        [st EXCEPT
                           !.with_gpu_projection =
                               \/ @
                               \/ expr.varattno # attnum
                               \/ attnum > natts
                               \/ ~expr.vartype_matches,
                           !.scan_tlist = ins.scan_tlist,
                           !.tlist_new =
                               Append(@, makeTargetEntry(
                                             makeIndexVar(ins.resno),
                                             resno_new))])
        ELSE IF expr.kind = "device"
        THEN LET ins == insert_unique_expression(expr, st.scan_tlist)
             IN  ProjectTargetList(natts, tlist_old, attnum + 1,
                   [st EXCEPT
                      !.with_gpu_projection = TRUE,
                      !.scan_tlist = ins.scan_tlist,
                      !.tlist_new =
                          Append(@, makeTargetEntry(makeIndexVar(ins.resno),
                                                    resno_new))])
        ELSE IF InvalidAttrNumber \in expr.refs
        THEN [st EXCEPT !.bailed = TRUE]
        ELSE LET stl == AddVarnodes(expr.refs, InvalidAttrNumber,
                                    st.scan_tlist)
                 expr_new == [kind |-> "host",
                              refs |-> {ReplaceVarnode(a, stl) :
                                           a \in expr.refs}]
             IN  ProjectTargetList(natts, tlist_old, attnum + 1,
                   [st EXCEPT
                      !.with_gpu_projection = TRUE,
                      !.scan_tlist = stl,
                      !.tlist_new =
                          Append(@, makeTargetEntry(expr_new, resno_new))])

InitProject ==
    /\ gss \in {g \in ScanConfigs : ~g.pfm_enabled
                   /\ g.max_async_tasks = pgstrom_max_async_tasks}
    /\ calc = NoCalc
    /\ scan = NoScan
    /\ \E natts \in AttrNumbers, tlist \in TargetLists :
         plan = [phase |-> "postplan", natts |-> natts,
                 tlist_old |-> tlist,
                 targetlist |-> tlist, custom_scan_tlist |-> <<>>,
                 widths_assigned |-> FALSE, returned |-> FALSE,
                 error |-> FALSE]
    /\ task = [t \in Tasks |-> NoTask]
    /\ pending_tasks = <<>>
    /\ running_tasks = <<>>
    /\ completed_tasks = <<>>
    /\ num_running_tasks = 0
    /\ num_completed_tasks = 0
    /\ lock = LockFree
    /\ txn = TRUE
    /\ gts_mem = "live"
    /\ hostpc = "plan"
    /\ host_task = 0
    /\ launch = FALSE
    /\ devmem = {}
    /\ pfm_accum = 0
    /\ latch = FALSE
    /\ fault = {}
    /\ hist = [running_at_teardown |-> 0, teardown |-> "none",
               drained_locked |-> TRUE, last_fail |-> "none", steps |-> <<>>,
               rescans |-> 0]
    /\ calls = <<>>

(* build_device_projection, lines 1226-1428: the plan node is updated only *)
(* at the end (1420-1425), when device projection is needed; a Var that    *)
(* replace_varnode_with_scan_tlist cannot find raises ERROR                *)
ProjectBuild ==
    /\ plan.phase = "postplan"
    /\ LET st == ProjectTargetList(plan.natts, plan.targetlist, 1,
                     [scan_tlist |-> <<>>, tlist_new |-> <<>>,
                      with_gpu_projection |-> FALSE, bailed |-> FALSE])
           failed == \E i \in 1 .. Len(st.tlist_new) :
                        /\ st.tlist_new[i].expr.kind = "host"
                        /\ 0 \in st.tlist_new[i].expr.refs
           returns == ~st.bailed /\ st.with_gpu_projection
       IN  plan' =
             IF failed
             THEN [plan EXCEPT !.phase = "error", !.error = TRUE]
             ELSE IF ~returns
             THEN [plan EXCEPT !.phase = "projected"]
             ELSE [plan EXCEPT !.phase = "projected",
                               !.returned = TRUE,
                               !.targetlist = st.tlist_new,
                               !.custom_scan_tlist = st.scan_tlist,
                               !.widths_assigned = TRUE]
    /\ PlanFrame

NextProject == ProjectBuild

SpecProject == InitProject /\ [][NextProject]_vars

(* ---- insert_unique_expression on its own: the calls that one run of    *)
(* build_device_projection makes on its scan_tlist, which starts as NIL    *)
(* (1236) and is handed to nothing else                                    *)
InsertedExprs ==
    {e \in VarExprs : e.varattno # InvalidAttrNumber} \cup DeviceExprs

InitInsert ==
    /\ gss \in {g \in ScanConfigs : ~g.pfm_enabled
                   /\ g.max_async_tasks = pgstrom_max_async_tasks}
    /\ calc = [phase |-> "insert", scan_tlist |-> <<>>, before |-> <<>>,
               expr |-> "none", resno |-> 0]
    /\ scan = NoScan
    /\ plan = NoPlan
    /\ task = [t \in Tasks |-> NoTask]
    /\ pending_tasks = <<>>
    /\ running_tasks = <<>>
    /\ completed_tasks = <<>>
    /\ num_running_tasks = 0
    /\ num_completed_tasks = 0
    /\ lock = LockFree
    /\ txn = TRUE
    /\ gts_mem = "live"
    /\ hostpc = "plan"
    /\ host_task = 0
    /\ launch = FALSE
    /\ devmem = {}
    /\ pfm_accum = 0
    /\ latch = FALSE
    /\ fault = {}
    /\ hist = [running_at_teardown |-> 0, teardown |-> "none",
               drained_locked |-> TRUE, last_fail |-> "none", steps |-> <<>>,
               rescans |-> 0]
    /\ calls = <<>>

(* one call, lines 1201-1224; the list before the call and the returned    *)
(* number are kept for the properties                                      *)
InsertCall ==
    /\ calc.phase = "insert"
    /\ Len(calc.scan_tlist) <= MaxAtts
    /\ \E expr \in InsertedExprs :
         LET ins == insert_unique_expression(expr, calc.scan_tlist)
         IN  calc' = [calc EXCEPT !.before = calc.scan_tlist,
                                  !.scan_tlist = ins.scan_tlist,
                                  !.expr = expr,
                                  !.resno = ins.resno]
    /\ CalcFrame

NextInsert == InsertCall

SpecInsert == InitInsert /\ [][NextInsert]_vars

(* ======================================================================= *)
(* The private fields of the CustomScan: form_gpuscan_info and             *)
(* deform_gpuscan_info in full (lines 63-121)                              *)
(* ======================================================================= *)
(* the NULL pointer, as a string and as a list (NIL) *)
NullString == [null |-> TRUE]

NIL == <<>>

(* Value nodes: makeString keeps the pointer it is given, makeInteger a    *)
(* long that holds every int32                                             *)
makeString(str) == [type |-> "T_String", str |-> str]

makeInteger(ival) == [type |-> "T_Integer", ival |-> ival]

(* pstrdup: a copy with the same characters *)
pstrdup(str) == [null |-> FALSE, chars |-> str.chars]

strVal(v) == v.str

intVal(v) == v.ival

(* list_nth counts from 0 *)
list_nth(list, n) == list[n + 1]

KernSources == {NullString, [null |-> FALSE, chars |-> ""],
                [null |-> FALSE, chars |-> "gpuscan_quals_eval"]}

NodeLists == {NIL, <<"a">>, <<"a", "b">>}

GpuScanInfos ==
    [kern_source : KernSources, extra_flags : {0, 5},
     func_defs : {NIL, <<"f">>}, used_params : NodeLists,
     used_vars : NodeLists, dev_quals : {NIL, <<"q">>},
     base_fixed_width : {0, 24}, proj_fixed_width : {0, 32},
     proj_extra_width : {0, 16}]

(* lines 78-98: custom_private and custom_exprs of the CustomScan *)
FormCustomScan(gs_info) ==
    [custom_private |->
        <<makeString(IF ~gs_info.kern_source.null
                     THEN pstrdup(gs_info.kern_source)
                     ELSE NullString),
          makeInteger(gs_info.extra_flags),
          gs_info.func_defs,
          makeInteger(gs_info.base_fixed_width),
          makeInteger(gs_info.proj_fixed_width),
          makeInteger(gs_info.proj_extra_width)>>,
     custom_exprs |->
        <<gs_info.used_params, gs_info.used_vars, gs_info.dev_quals>>]

(* faulty variant: used_vars and dev_quals are read from each other's slot *)
DeformSwapsExprs(cscan) ==
    LET privs == cscan.custom_private
        exprs == cscan.custom_exprs
    IN  [kern_source |-> strVal(list_nth(privs, 0)),
         extra_flags |-> intVal(list_nth(privs, 1)),
         func_defs |-> list_nth(privs, 2),
         used_params |-> list_nth(exprs, 0),
         used_vars |-> list_nth(exprs, 2),
         dev_quals |-> list_nth(exprs, 1),
         base_fixed_width |-> intVal(list_nth(privs, 3)),
         proj_fixed_width |-> intVal(list_nth(privs, 4)),
         proj_extra_width |-> intVal(list_nth(privs, 5))]

(* lines 100-121: pindex and eindex advance by one per read *)
DeformCustomScan(cscan) ==
    LET privs == cscan.custom_private
        exprs == cscan.custom_exprs
    IN  [kern_source |-> strVal(list_nth(privs, 0)),
         extra_flags |-> intVal(list_nth(privs, 1)),
         func_defs |-> list_nth(privs, 2),
         used_params |-> list_nth(exprs, 0),
         used_vars |-> list_nth(exprs, 1),
         dev_quals |-> list_nth(exprs, 2),
         base_fixed_width |-> intVal(list_nth(privs, 3)),
         proj_fixed_width |-> intVal(list_nth(privs, 4)),
         proj_extra_width |-> intVal(list_nth(privs, 5))]

InitForm ==
    /\ gss \in {g \in ScanConfigs : ~g.pfm_enabled
                   /\ g.max_async_tasks = pgstrom_max_async_tasks}
    /\ \E gs_info \in GpuScanInfos :
         calc = [phase |-> "info", gs_info |-> gs_info]
    /\ scan = NoScan
    /\ plan = NoPlan
    /\ task = [t \in Tasks |-> NoTask]
    /\ pending_tasks = <<>>
    /\ running_tasks = <<>>
    /\ completed_tasks = <<>>
    /\ num_running_tasks = 0
    /\ num_completed_tasks = 0
    /\ lock = LockFree
    /\ txn = TRUE
    /\ gts_mem = "live"
    /\ hostpc = "plan"
    /\ host_task = 0
    /\ launch = FALSE
    /\ devmem = {}
    /\ pfm_accum = 0
    /\ latch = FALSE
    /\ fault = {}
    /\ hist = [running_at_teardown |-> 0, teardown |-> "none",
               drained_locked |-> TRUE, last_fail |-> "none", steps |-> <<>>,
               rescans |-> 0]
    /\ calls = <<>>

(* form_gpuscan_info at the end of planning (lines 591, 1485) *)
FormInfo ==
    /\ calc.phase = "info"
    /\ calc' = [phase |-> "formed", gs_info |-> calc.gs_info,
                cscan |-> FormCustomScan(calc.gs_info)]
    /\ CalcFrame

(* deform_gpuscan_info on the CustomScan (lines 1440, 1542) *)
DeformInfo ==
    /\ calc.phase = "formed"
    /\ calc' = [phase |-> "deformed", gs_info |-> calc.gs_info,
                cscan |-> calc.cscan,
                deformed |-> DeformCustomScan(calc.cscan)]
    /\ CalcFrame

NextForm == FormInfo \/ DeformInfo

SpecForm == InitForm /\ [][NextForm]_vars

(* ======================================================================= *)
(* Bulk-load capability: gpuscan_add_scan_path (lines 309-328) and         *)
(* gpuscan_try_replace_seqscan (lines 359-431)                             *)
(* ======================================================================= *)
(* a target expression is a Var or something else, and the code generator  *)
(* accepts it or not (a Var of a type the device lacks is not accepted)    *)
BulkTargetExprs == [is_var : BOOLEAN, device_capable : BOOLEAN]

BulkTargetLists == UNION {[1 .. n -> BulkTargetExprs] : n \in 0 .. MaxAtts}

BulkClauseLists ==
    {q \in ClauseLists : \A i \in 1 .. Len(q) : ~q[i].pseudoconstant}

(* the code generator's test applied to a list of expressions: every       *)
(* member has to pass, and the empty list passes                           *)
CodegenAvailableList(exprs) ==
    \A i \in 1 .. Len(exprs) : pgstrom_codegen_available_expression(exprs[i])

(* faulty variant: only the first entry of the target list is looked at *)
TargetListFirstOnly(tlist) ==
    tlist # <<>> =>
       tlist[1].is_var \/ pgstrom_codegen_available_expression(tlist[1])

(* the loops at lines 314-324 and 397-404: no entry that is neither a Var  *)
(* nor acceptable to the code generator                                    *)
TargetListOnDevice(tlist) ==
    \A i \in 1 .. Len(tlist) :
       tlist[i].is_var \/ pgstrom_codegen_available_expression(tlist[i])

NoBulkPlan == [made |-> FALSE, bulkload |-> FALSE, qual |-> <<>>,
               targetlist |-> <<>>, outer_quals |-> <<>>]

(* lines 359-431: NULL, or a CustomScan marked for bulk-load that hands    *)
(* the qualifiers of the SeqScan to the caller                             *)
gpuscan_try_replace_seqscan(enabled, bulkload, is_rel, targetlist, qual) ==
    IF ~enabled \/ ~bulkload THEN NoBulkPlan
    ELSE IF ~is_rel THEN NoBulkPlan
    ELSE IF ~TargetListOnDevice(targetlist) THEN NoBulkPlan
    ELSE IF ~CodegenAvailableList(qual) THEN NoBulkPlan
    ELSE [made |-> TRUE, bulkload |-> TRUE, qual |-> <<>>,
          targetlist |-> targetlist, outer_quals |-> qual]

InitBulk ==
    /\ gss \in {g \in ScanConfigs : ~g.pfm_enabled
                   /\ g.max_async_tasks = pgstrom_max_async_tasks}
    /\ calc = NoCalc
    /\ scan = NoScan
    /\ \E clauses \in BulkClauseLists, tlist \in BulkTargetLists,
          enabled \in BOOLEAN, bulkload_enabled \in BOOLEAN,
          is_relation \in BOOLEAN :
            plan = [phase |-> "bulk",
                    enabled |-> enabled,
                    bulkload_enabled |-> bulkload_enabled,
                    is_relation |-> is_relation,
                    baserestrictinfo |-> clauses,
                    reltargetlist |-> tlist,
                    path_done |-> FALSE, path |-> NoPath,
                    replace_done |-> FALSE, cscan |-> NoBulkPlan]
    /\ task = [t \in Tasks |-> NoTask]
    /\ pending_tasks = <<>>
    /\ running_tasks = <<>>
    /\ completed_tasks = <<>>
    /\ num_running_tasks = 0
    /\ num_completed_tasks = 0
    /\ lock = LockFree
    /\ txn = TRUE
    /\ gts_mem = "live"
    /\ hostpc = "plan"
    /\ host_task = 0
    /\ launch = FALSE
    /\ devmem = {}
    /\ pfm_accum = 0
    /\ latch = FALSE
    /\ fault = {}
    /\ hist = [running_at_teardown |-> 0, teardown |-> "none",
               drained_locked |-> TRUE, last_fail |-> "none", steps |-> <<>>,
               rescans |-> 0]
    /\ calls = <<>>

(* the set_rel_pathlist hook on a base relation (the hook returns at line  *)
(* 262 for anything else)                                                  *)
BulkAddScanPath ==
    /\ plan.phase = "bulk"
    /\ ~plan.path_done
    /\ plan' = [plan EXCEPT
                  !.path_done = TRUE,
                  !.path = IF plan.is_relation
                           THEN gpuscan_add_scan_path(
                                    plan.enabled, plan.baserestrictinfo,
                                    TargetListOnDevice(plan.reltargetlist))
                           ELSE NoPath]
    /\ PlanFrame

(* a PG-Strom join or aggregate offers the SeqScan under it: its qual is   *)
(* the list of the bare restriction clauses                                *)
BulkTryReplace ==
    /\ plan.phase = "bulk"
    /\ ~plan.replace_done
    /\ plan' = [plan EXCEPT
                  !.replace_done = TRUE,
                  !.cscan = gpuscan_try_replace_seqscan(
                                plan.enabled, plan.bulkload_enabled,
                                plan.is_relation, plan.reltargetlist,
                                extract_actual_clauses(plan.baserestrictinfo,
                                                       FALSE))]
    /\ PlanFrame

NextBulk == BulkAddScanPath \/ BulkTryReplace

SpecBulk == InitBulk /\ [][NextBulk]_vars

(* ======================================================================= *)
(* Options of a gstore_fdw foreign table: __gstore_fdw_table_options       *)
(* (gstore_fdw.c 908-973), reached from gstore_fdw_table_options (975-992) *)
(* and from pgstrom_gstore_fdw_validator (1053-1085)                       *)
(* ======================================================================= *)
(* the format code, from a header that is not part of src/ *)
GSTORE_FDW_FORMAT__PGSTROM == 50

(* a C string is the sequence of its characters *)
DecimalDigits == <<"0", "1", "2", "3", "4", "5", "6", "7", "8", "9">>

IsDigit(ch) == \E d \in 1 .. 10 : DecimalDigits[d] = ch

DigitValue(ch) == (CHOOSE d \in 1 .. 10 : DecimalDigits[d] = ch) - 1

(* the digits of str from position i on, up to the first other character *)
RECURSIVE AtoiDigits(_, _, _)
AtoiDigits(str, i, acc) ==
    IF i > Len(str) \/ ~IsDigit(str[i]) THEN acc
    ELSE AtoiDigits(str, i + 1, 10 * acc + DigitValue(str[i]))

RECURSIVE SkipSpaces(_, _)
SkipSpaces(str, i) ==
    IF i <= Len(str) /\ str[i] = " " THEN SkipSpaces(str, i + 1) ELSE i

(* atoi of the C library: leading blanks, an optional sign, then digits;   *)
(* what follows the digits is ignored, and no digit at all gives 0         *)
atoi(str) ==
    LET i == SkipSpaces(str, 1)
    IN  IF i <= Len(str) /\ str[i] = "-" THEN 0 - AtoiDigits(str, i + 1, 0)
        ELSE IF i <= Len(str) /\ str[i] = "+" THEN AtoiDigits(str, i + 1, 0)
        ELSE AtoiDigits(str, i, 0)

PinningValues ==
    {<<"0">>, <<"1">>, <<"2">>, <<"-", "1">>, <<"a">>, <<"1", "x">>,
     <<>>, <<" ", "1">>}

StrPgstrom == <<"p", "g", "s", "t", "r", "o", "m">>

StrDefault == <<"d", "e", "f", "a", "u", "l", "t">>

StrArrow == <<"a", "r", "r", "o", "w">>

(* strcmp(a, b) == 0 *)
StrEqual(a, b) == a = b

FormatNames == {StrPgstrom, StrDefault, StrArrow}

DefElems ==
    [defname : {"pinning"}, arg : PinningValues]
       \cup [defname : {"format"}, arg : FormatNames]
       \cup [defname : {"compression"}, arg : {<<"p", "g", "l", "z">>}]

OptionLists == UNION {[1 .. n -> DefElems] : n \in 0 .. MaxOptions}

(* the number of GPU devices found at startup *)
DevAttrCounts == 0 .. 2

(* lines 918-955: the loop, stopped by the first ereport(ERROR); pinning   *)
(* and format start at -1                                                  *)
RECURSIVE TableOptionsLoop(_, _, _, _)
TableOptionsLoop(options, i, numDevAttrs, st) ==
    IF i > Len(options) \/ st.error # "none" THEN st
    ELSE
    LET defel == options[i]
    IN  IF defel.defname = "pinning"
        THEN IF st.pinning >= 0
             THEN [st EXCEPT !.error = "pinning twice"]
             ELSE LET pinning == atoi(defel.arg)
                  IN  IF pinning < 0 \/ pinning >= numDevAttrs
                      THEN [st EXCEPT !.pinning = pinning,
                                      !.error = "unavailable device"]
                      ELSE TableOptionsLoop(options, i + 1, numDevAttrs,
                                            [st EXCEPT !.pinning = pinning])
        ELSE IF defel.defname = "format"
        THEN IF st.format >= 0
             THEN [st EXCEPT !.error = "format twice"]
             ELSE IF \/ StrEqual(defel.arg, StrPgstrom)
                     \/ StrEqual(defel.arg, StrDefault)
             THEN TableOptionsLoop(options, i + 1, numDevAttrs,
                      [st EXCEPT !.format = GSTORE_FDW_FORMAT__PGSTROM])
             ELSE [st EXCEPT !.error = "unknown format"]
        ELSE [st EXCEPT !.error = "unknown option"]

(* what a call leaves behind: the error raised, if any, and the two ints   *)
(* of the caller with whether they were written                            *)
NoOptionsResult ==
    [error |-> "none", wrote_pinning |-> FALSE, wrote_format |-> FALSE,
     pinning |-> 0 - 1, format |-> 0 - 1]

(* lines 908-973; out tells whether p_pinning and p_format are given *)
TableOptions(options, numDevAttrs, out) ==
    LET st == TableOptionsLoop(options, 1, numDevAttrs,
                  [pinning |-> 0 - 1, format |-> 0 - 1, error |-> "none"])
    IN  IF st.error # "none"
        THEN [NoOptionsResult EXCEPT !.error = st.error]
        ELSE IF st.pinning < 0
        THEN [NoOptionsResult EXCEPT !.error = "no pinning"]
        ELSE IF ~out THEN NoOptionsResult
        ELSE [error |-> "none", wrote_pinning |-> TRUE,
              wrote_format |-> TRUE, pinning |-> st.pinning,
              format |-> IF st.format < 0
                         THEN GSTORE_FDW_FORMAT__PGSTROM ELSE st.format]

InitOptions ==
    /\ gss \in {g \in ScanConfigs : ~g.pfm_enabled
                   /\ g.max_async_tasks = pgstrom_max_async_tasks}
    /\ \E options \in OptionLists, n \in DevAttrCounts :
         calc = [phase |-> "options", options |-> options,
                 numDevAttrs |-> n, caller |-> "none",
                 result |-> NoOptionsResult]
    /\ scan = NoScan
    /\ plan = NoPlan
    /\ task = [t \in Tasks |-> NoTask]
    /\ pending_tasks = <<>>
    /\ running_tasks = <<>>
    /\ completed_tasks = <<>>
    /\ num_running_tasks = 0
    /\ num_completed_tasks = 0
    /\ lock = LockFree
    /\ txn = TRUE
    /\ gts_mem = "live"
    /\ hostpc = "plan"
    /\ host_task = 0
    /\ launch = FALSE
    /\ devmem = {}
    /\ pfm_accum = 0
    /\ latch = FALSE
    /\ fault = {}
    /\ hist = [running_at_teardown |-> 0, teardown |-> "none",
               drained_locked |-> TRUE, last_fail |-> "none", steps |-> <<>>,
               rescans |-> 0]
    /\ calls = <<>>

(* pgstrom_gstore_fdw_validator on ForeignTableRelationId, line 1062: both *)
(* result pointers are NULL                                                *)
OptionsValidator ==
    /\ calc.phase = "options"
    /\ calc' = [calc EXCEPT
                  !.phase = "checked", !.caller = "validator",
                  !.result = TableOptions(calc.options, calc.numDevAttrs,
                                          FALSE)]
    /\ CalcFrame

(* gstore_fdw_table_options, line 991, as called from the planner with the *)
(* addresses of two ints (gstore_fdw.c 136)                                *)
OptionsOfTable ==
    /\ calc.phase = "options"
    /\ calc' = [calc EXCEPT
                  !.phase = "checked", !.caller = "table_options",
                  !.result = TableOptions(calc.options, calc.numDevAttrs,
                                          TRUE)]
    /\ CalcFrame

NextOptions == OptionsValidator \/ OptionsOfTable

SpecOptions == InitOptions /\ [][NextOptions]_vars

(* ---- the lifecycle under fair scheduling ------------------------------- *)
(* The device runtime runs every registered callback to its end, and a     *)
(* host that has left the transaction or ended the scan carries out the   *)
(* teardown; nothing obliges the host to poll, to submit or to end.       *)
Fairness ==
    /\ \A t \in Tasks : WF_vars(CbCheck(t))
    /\ \A t \in Tasks : WF_vars(CbStash(t))
    /\ \A t \in Tasks : WF_vars(CbLock(t))
    /\ \A t \in Tasks : WF_vars(CbMove(t))
    /\ WF_vars(TeardownLock)
    /\ WF_vars(TeardownDrain)
    /\ WF_vars(TeardownRelease)

(* one scan of the lifecycle model: the bare scan with K in-flight Tasks *)
LiveConfigs == {g \in ScanConfigs : /\ ~g.pfm_enabled
                                    /\ g.max_async_tasks
                                          = pgstrom_max_async_tasks}

InitLive == InitScan(LiveConfigs)

SpecLive == InitLive /\ [][Next]_vars /\ Fairness

(* ======================================================================= *)
(* Properties                                                              *)
(* ======================================================================= *)
Live(t) == task[t].mem = "live"

QueuesOf(t) ==
    (IF t \in SeqSet(pending_tasks) THEN {"pending"} ELSE {})
    \cup (IF t \in SeqSet(running_tasks) THEN {"running"} ELSE {})
    \cup (IF t \in SeqSet(completed_tasks) THEN {"completed"} ELSE {})

Links(t) ==
    SeqCount(pending_tasks, t) + SeqCount(running_tasks, t)
    + SeqCount(completed_tasks, t)

AllHandlesNull(r) ==
    /\ r.m_gpuscan = 0 /\ r.m_kds_src = 0 /\ r.m_kds_dst = 0
    /\ ~r.kern_exec_quals /\ ~r.kern_dev_proj
    /\ r.ev = {}

(* the callback of t ran to its end and did not bail out *)
CallbackCompleted(t) == task[t].cb = "done" /\ ~task[t].cb_dead

(* C1: in every interleaving of the callback, the host loop and the       *)
(* forced drain, each Task enters the completed queue at most once, and   *)
(* every move into it is made while the GpuTaskState lock is held.        *)
C1_EntersCompletedOnce ==
    /\ \A t \in Tasks : task[t].entered <= 1
    /\ \A t \in Tasks : <<"completed_tasks", "w", FALSE>> \notin task[t].touch
    /\ hist.drained_locked

(* C2: every live Task is linked into exactly one of the pending, running *)
(* and completed queues.                                                   *)
C2_ExactlyOneQueue ==
    \A t \in Tasks : Live(t) => Links(t) = 1

(* C2 (amended): a live Task is never linked twice; it is linked into no  *)
(* queue only while the host holds it in hand (just created, being        *)
(* submitted, or popped from the completed queue).                         *)
C2_AtMostOneQueue ==
    \A t \in Tasks :
        Live(t) => /\ Links(t) <= 1
                   /\ Links(t) = 0 => host_task = t

C2_Witness ==
    \E t, u \in Tasks :
        /\ Live(t) /\ CallbackCompleted(t) /\ QueuesOf(t) = {"completed"}
        /\ Live(u) /\ QueuesOf(u) = {} /\ hostpc = "popped"

(* C3: the device memory handle of a live Task is non-null if and only if *)
(* the Task is in the running or in the completed queue.                   *)
C3_HandleIffRunningOrCompleted ==
    \A t \in Tasks :
        Live(t) => (task[t].m_gpuscan # 0
                    <=> QueuesOf(t) \cap {"running", "completed"} # {})

(* C3 (amended): a live Task in the running or completed queue has a      *)
(* non-null handle, one in the pending queue has a null handle, and a     *)
(* Task with a non-null handle outside those queues is the one the host   *)
(* is submitting (allocated, not yet attached) or has popped from the     *)
(* completed queue and not yet completed.                                  *)
C3_HandleByQueue ==
    \A t \in Tasks :
        Live(t) =>
          /\ QueuesOf(t) \cap {"running", "completed"} # {}
                => task[t].m_gpuscan # 0
          /\ "pending" \in QueuesOf(t) => task[t].m_gpuscan = 0
          /\ (task[t].m_gpuscan # 0 /\ QueuesOf(t) = {})
                => (host_task = t /\ hostpc \in {"processed", "completing"})

C3_Witness ==
    \E t, u \in Tasks :
        /\ Live(t) /\ QueuesOf(t) = {"completed"} /\ task[t].m_gpuscan # 0
        /\ Live(u) /\ QueuesOf(u) = {} /\ task[u].m_gpuscan # 0
        /\ hostpc = "processed"
Last(q) == q[Len(q)]

DeviceState == <<task, devmem, fault, pfm_accum>>

(* C4: calling the Task release routine (pgstrom_release_gpuscan) a       *)
(* second time on the same Task frees nothing and changes no state.       *)
C4_SecondReleaseIsNoop ==
    [][(/\ calls # <<>>
        /\ Last(calls) = "pgstrom_release_gpuscan"
        /\ calls' = Append(calls, "pgstrom_release_gpuscan"))
          => DeviceState' = DeviceState]_vars

(* C4 (amended): after any of the release routines has run, every device  *)
(* handle of the Task is null and nothing of it is left on the device;    *)
(* gpuscan_cleanup_cuda_resources called again on the Task frees nothing  *)
(* and changes no state, and no handle is ever freed twice.               *)
C4_SecondCleanupIsNoop ==
    /\ [](calls # <<>> => /\ AllHandlesNull(task[1])
                          /\ devmem = {}
                          /\ "double_free" \notin fault)
    /\ [][(/\ calls # <<>>
           /\ calls' = Append(calls, "gpuscan_cleanup_cuda_resources"))
             => DeviceState' = DeviceState]_vars

C4_Witness ==
    /\ Len(calls) = 2
    /\ calls[2] = "gpuscan_cleanup_cuda_resources"
    /\ task[1].cmds # <<>>
    /\ gss.pfm_enabled

(* C5: a callback that fires for a dead context (status                   *)
(* CUDA_ERROR_INVALID_CONTEXT, or no transaction) reads and writes no     *)
(* Task field, queue, counter or latch.                                    *)
C5_DeadCallbackTouchesNothing ==
    \A t \in Tasks : task[t].cb_dead => task[t].touch = {}

SharedResources ==
    {"task.kerror", "task.chain", "running_tasks", "num_running_tasks",
     "completed_tasks", "num_completed_tasks"}

QueueResources == SharedResources \ {"task.kerror"}

(* C6: every touch of a shared resource (error slot, queue links, the     *)
(* running and completed sets and their counters) is made while holding   *)
(* the GpuTaskState lock, in the callback and in the teardown.            *)
C6_EveryTouchLocked ==
    /\ \A t \in Tasks : \A x \in task[t].touch :
           x[1] \in SharedResources => x[3]
    /\ hist.drained_locked

(* C6 (amended): every touch of the queue links, the running and          *)
(* completed sets and their counters is made while holding the lock, and  *)
(* the callback reads the error slot under the lock when it picks the end *)
(* of the queue; it writes the error slot before it takes the lock.       *)
C6_QueueTouchLocked ==
    /\ \A t \in Tasks : \A x \in task[t].touch :
           /\ x[1] \in QueueResources => x[3]
           /\ (x[1] = "task.kerror" /\ x[2] = "r") => x[3]
           /\ (x[1] = "task.kerror" /\ x[2] = "w") => ~x[3]
    /\ hist.drained_locked

C6_Witness ==
    \E t \in Tasks :
        /\ CallbackCompleted(t)
        /\ <<"running_tasks", "w", TRUE>> \in task[t].touch
        /\ <<"task.kerror", "w", FALSE>> \in task[t].touch
        /\ hist.teardown = "done"

(* C7: after a teardown that found two Tasks running, every Task and      *)
(* every device allocation is released, and a callback that fires         *)
(* afterwards writes nothing and causes no fault.                          *)
C7_TeardownThenCallbackNoop ==
    (hist.teardown = "done" /\ hist.running_at_teardown = 2) =>
        /\ \A t \in Tasks : ~Live(t)
        /\ devmem = {}
        /\ \A t \in Tasks :
              task[t].cb_late =>
                 /\ \A x \in task[t].touch : x[2] # "w"
                 /\ fault = {}
(* the commands the stream order speaks of: the timing markers and the    *)
(* copy-in of the output Chunk's header are further commands of the       *)
(* stream, issued inside the copy-in phase and between the phases         *)
PhaseCommand(c) ==
    /\ c.op # "cuEventRecord"
    /\ ~(c.op = "cuMemcpyHtoDAsync" /\ c.arg = "kds_dst_head")

PhaseOf(c) ==
    IF c.op = "cuMemcpyHtoDAsync" THEN 1
    ELSE IF c.op = "cuLaunchKernel" THEN 2
    ELSE IF c.op = "cuMemcpyDtoHAsync" THEN 3
    ELSE 4

FixedOrder(predicate, output) ==
    <<Call("cuMemcpyHtoDAsync", "kern"), Call("cuMemcpyHtoDAsync", "kds_src")>>
    \o (IF predicate THEN <<Call("cuLaunchKernel", "gpuscan_exec_quals")>>
                     ELSE <<>>)
    \o (IF output THEN <<Call("cuLaunchKernel", "gpuscan_projection")>>
                  ELSE <<>>)
    \o <<Call("cuMemcpyDtoHAsync", "kern")>>
    \o (IF output THEN <<Call("cuMemcpyDtoHAsync", "kds_dst")>> ELSE <<>>)
    \o <<Call("cuStreamAddCallback", "pgstrom_respond_gpuscan")>>

IsPrefix(p, q) == Len(p) <= Len(q) /\ SubSeq(q, 1, Len(p)) = p

(* C8: the commands of a submitted Task are on its stream in the fixed    *)
(* order copy-in of the control block, copy-in of the input Chunk,        *)
(* predicate kernel (iff the scan has a predicate), projection kernel     *)
(* (iff an output Chunk exists), copy-out of the control block, copy-out  *)
(* of the output Chunk (iff one exists), and the callback last; every     *)
(* copy-in precedes every kernel, every kernel every copy-out.            *)
C8_CommandOrder ==
    \A t \in Tasks :
        LET cmds == task[t].cmds
            want == FixedOrder(gss.dev_quals, task[t].pds_dst)
            listed == SelectSeq(cmds, PhaseCommand)
            ordered == SelectSeq(cmds, LAMBDA c : c.op # "cuEventRecord")
        IN  /\ IsPrefix(listed, want)
            /\ task[t].cb # "none" <=> listed = want
            /\ task[t].cb # "none" => Last(cmds).op = "cuStreamAddCallback"
            /\ \A i, j \in 1 .. Len(ordered) :
                  i < j => PhaseOf(ordered[i]) <= PhaseOf(ordered[j])

C8_Witness ==
    \E t \in Tasks :
        /\ task[t].cb = "armed"
        /\ task[t].pds_dst /\ gss.dev_quals /\ gss.pfm_enabled
        /\ t \in SeqSet(running_tasks)

(* C9: when gpuMemAlloc fails the submit routine returns false and raises *)
(* no error; the Task is left alive with every device handle null and     *)
(* nothing of it on the device, no command and no callback has been       *)
(* issued for it, and it goes back to the pending queue for a retry.      *)
NothingIssued(t) ==
    /\ Live(t)
    /\ AllHandlesNull(task[t])
    /\ TaskHandles(task[t], t) \cap devmem = {}
    /\ \A e \in EventNames : EvHandle(t, e) \notin devmem
    /\ MemHandle(DevPtr(t)) \notin devmem
    /\ task[t].cmds = <<>>
    /\ task[t].cb = "none"

C9_AllocFailureIsRetryable ==
    /\ (host_task # 0 /\ hostpc \in {"processed", "error"}
           /\ hist.last_fail = "gpuMemAlloc")
          => (hostpc = "processed" /\ ~launch /\ NothingIssued(host_task))
    /\ (hostpc = "processed" /\ ~launch) => hist.last_fail = "gpuMemAlloc"
    /\ \A t \in SeqSet(pending_tasks) : NothingIssued(t)

C9_Witness ==
    /\ hist.last_fail = "gpuMemAlloc"
    /\ hostpc = "loop"
    /\ pending_tasks # <<>>
    /\ NothingIssued(Head(pending_tasks))
    /\ running_tasks # <<>>

(* C10: an error the callback receives (a non-success status, or the      *)
(* error code the kernel left in the control block) is in the error slot  *)
(* of its Task once the callback has returned.                             *)
DeliveredError(t) ==
    IF task[t].status # CUDA_SUCCESS THEN task[t].status
    ELSE task[t].kern_kerror

C10_ErrorNeverLost ==
    \A t \in Tasks :
        (task[t].cb = "done" /\ DeliveredError(t) # StromError_Success)
            => task[t].kerror = DeliveredError(t)

(* C10 (amended): unless the callback bails out for a dead context, the   *)
(* error it receives is in the error slot of its own Task before the      *)
(* callback links the Task into the completed queue, and it is the error  *)
(* the Consumer observes when it drains that Task; a callback that bails  *)
(* out drops the status and leaves the slot and the queues alone.         *)
C10_ErrorStashedBeforeVisible ==
    \A t \in Tasks :
        /\ (task[t].cb \in {"stashed", "locked", "done"} /\ ~task[t].cb_dead)
              => task[t].kerror = DeliveredError(t)
        /\ <<"completed_tasks", "w", TRUE>> \in task[t].touch
              => task[t].kerror = DeliveredError(t)
        /\ task[t].observed # "none"
              => (CallbackCompleted(t) /\ task[t].observed = DeliveredError(t))
        /\ task[t].cb_dead
              => (task[t].kerror = StromError_Success
                  /\ \A x \in task[t].touch : x[2] # "w")

C10_Witness ==
    \E t, u \in Tasks :
        /\ task[t].observed = CUDA_ERROR_LAUNCH_FAILED
        /\ task[u].cb = "done"
        /\ task[u].status = CUDA_SUCCESS
        /\ task[u].kern_kerror = StromError_DataStoreNoSpace
        /\ task[u].kerror = StromError_DataStoreNoSpace

(* C11: the completed queue is FIFO with priority for errors: the callback *)
(* puts a Task that completed successfully behind every Task waiting in   *)
(* the completed queue and a Task that completed with an error ahead of   *)
(* every one of them, and the host always dequeues the head.              *)
C11_ErrorsFirstThenFifo ==
    [][/\ \A t \in Tasks :
            (task[t].cb = "locked" /\ task'[t].cb = "done") =>
               LET waiting == SeqRemove(completed_tasks, t)
               IN  completed_tasks' =
                      IF task[t].kerror = StromError_Success
                      THEN waiting \o <<t>>
                      ELSE <<t>> \o waiting
       /\ (hostpc = "loop" /\ hostpc' = "completing") =>
             /\ host_task' = Head(completed_tasks)
             /\ completed_tasks' = Tail(completed_tasks)]_vars

C11_Witness ==
    /\ Len(completed_tasks) = 2
    /\ \A t \in SeqSet(completed_tasks) : CallbackCompleted(t)
    /\ task[completed_tasks[1]].kerror # StromError_Success
    /\ task[completed_tasks[2]].kerror = StromError_Success
    /\ completed_tasks[1] > completed_tasks[2]

(* a Task in a non-terminal state MEM_ALLOCATED .. RUNNING: it owns device *)
(* memory and has not entered the completed queue yet                      *)
InFlight(t) == Live(t) /\ task[t].m_gpuscan # 0 /\ task[t].entered = 0

C13_RunningEventuallyLeaves ==
    \A t \in Tasks :
        (t \in SeqSet(running_tasks)) ~> (t \notin SeqSet(running_tasks))

C13_Witness ==
    \E t \in Tasks :
        /\ task[t].cb_dead
        /\ task[t].cb = "done"
        /\ task[t].entered = 1
        /\ t \notin SeqSet(running_tasks)
        /\ hostpc = "teardown_release"

(* the rows the kernels found visible in a Task *)
ResultRows(tsk) == IF tsk.has_dst THEN tsk.dst ELSE tsk.kresults

(* C14: gpuscan_next_chunk returns None if and only if it gathered zero   *)
(* rows and reached the end of the input; otherwise it returns a new Task *)
(* whose input Chunk is the filled one and holds at least one row.        *)
C14_NoneIffEmptyAtEnd ==
    /\ scan.ret \in {"none", "task", "null"}
    /\ scan.ret = "null" <=>
          (scan.phase = "end" /\ scan.last_rows = <<>>
             /\ scan.curr_blknum >= scan.last_blknum)
    /\ scan.ret = "task" =>
          /\ scan.last_rows # <<>>
          /\ scan.phase = "kernel" => scan.curr_task.src = scan.last_rows
    /\ \A i \in 1 .. Len(scan.chunks) : scan.chunks[i] # <<>>
    /\ scan.ntasks >= Len(scan.chunks)

C14_Witness ==
    /\ scan.ret = "null"
    /\ Len(scan.chunks) >= 1
    /\ scan.rel[scan.last_blknum] = <<>>
    /\ Len(scan.chunks[Len(scan.chunks)]) < scan.budget

(* C15: for a relation with zero blocks the first call of                 *)
(* gpuscan_next_chunk returns None, no Task is ever created, the scan     *)
(* yields no row, and every later call returns None too.                  *)
C15_EmptyRelationYieldsNothing ==
    scan.last_blknum = 0 =>
        /\ scan.ret \in {"none", "null"}
        /\ scan.phase \in {"fetch", "end"}
        /\ scan.phase = "fetch" => scan.ret = "none"
        /\ scan.ntasks = 0
        /\ scan.chunks = <<>>
        /\ scan.out = <<>>
        /\ scan.curr_blknum = 0

C15_Witness ==
    /\ scan.last_blknum = 0
    /\ scan.phase = "end"
    /\ scan.ret = "null"
    /\ scan.endcalls = MaxEndCalls

(* C16: successive gpuscan_next_tuple calls on a completed Task with n    *)
(* output rows return the rows 0..n-1 in index order, each once, and None *)
(* on every call after that; the row cursor never exceeds n.              *)
C16_DrainsInIndexOrder ==
    /\ "null_pointer" \notin fault
    /\ scan.phase = "drain" =>
          LET rows == ResultRows(scan.curr_task)
          IN  /\ scan.curr_index <= Len(rows)
              /\ scan.fetched = SubSeq(rows, 1, scan.curr_index)
              /\ scan.exhausted <=> scan.slot = "None"
              /\ scan.exhausted => scan.curr_index = Len(rows)

(* C17: a Task that completes with zero output rows from a non-empty      *)
(* source Chunk gives the Consumer None, which is neither an error nor    *)
(* the end of the scan; the scan ends only when gpuscan_next_chunk has    *)
(* consumed every block.                                                  *)
C17_EmptyResultAdvances ==
    /\ (/\ scan.phase \in {"drain", "crashed"}
        /\ scan.curr_task.src # <<>>
        /\ ResultRows(scan.curr_task) = <<>>
        /\ scan.slot # "none")
          => (scan.slot = "None" /\ scan.phase = "drain" /\ fault = {})
    /\ scan.phase = "end" =>
          (scan.ret = "null" /\ scan.curr_blknum = scan.last_blknum)

(* the rows of a sequence of chunks, in order *)
RECURSIVE Flatten(_)
Flatten(ss) == IF ss = <<>> THEN <<>> ELSE Head(ss) \o Flatten(Tail(ss))

(* C18: whatever the chunk budget, between two rescans the calls of       *)
(* gpuscan_next_chunk load every block 0..last_blknum-1 exactly once, in  *)
(* ascending order, and the chunks carry the rows of the loaded blocks in *)
(* relation order, so the rows that reach the Tasks do not depend on      *)
(* where the chunk boundaries fall.                                       *)
C18_EveryBlockLoadedOnce ==
    /\ scan.phase # "idle" =>
          /\ scan.curr_blknum <= scan.last_blknum
          /\ scan.loaded = BlockRange(0, scan.curr_blknum)
          /\ Flatten(scan.chunks) = AllRows(scan.rel, scan.curr_blknum)
          /\ \A i \in 1 .. Len(scan.chunks) :
                Len(scan.chunks[i]) <= scan.budget
    /\ scan.phase = "end" =>
          /\ scan.curr_blknum = scan.last_blknum
          /\ Flatten(scan.chunks) = AllRows(scan.rel, Len(scan.rel))

C18_Witness ==
    /\ scan.phase = "end"
    /\ scan.rescans = 1
    /\ Len(scan.chunks) >= 2
    /\ scan.budget < Len(AllRows(scan.rel, Len(scan.rel)))

IsPrefixOf(p, q) == Len(p) <= Len(q) /\ SubSeq(q, 1, Len(p)) = p

(* C19: the scan with device offload returns the same rows, in the same   *)
(* order, as the evaluation of all qualifiers on the host.                *)
C19_SameRowsAsHostOnly ==
    /\ fault = {}
    /\ scan.phase # "idle" => IsPrefixOf(scan.out, HostOnlyRows(scan.rel))
    /\ scan.phase = "end" => scan.out = HostOnlyRows(scan.rel)

(* the expressions of a list, as a set *)
ExprSet(q) == {q[i] : i \in 1 .. Len(q)}

(* how often an expression occurs in a list *)
Occurrences(q, e) == Cardinality({i \in 1 .. Len(q) : q[i] = e})

(* C20: plan construction drops no clause: every scan clause that is not  *)
(* a pseudoconstant is in exactly one of the device qualifier list and    *)
(* the host qualifier list; the device list holds device-capable clauses  *)
(* only; a clause the device cannot run is not in the generated kernel    *)
(* and is in the plan's host qualifiers.                                  *)
C20_ClausesPartitioned ==
    plan.phase = "planned" =>
        LET cs == plan.cscan
        IN  /\ \A i \in 1 .. Len(plan.clauses) :
                 LET r == plan.clauses[i]
                 IN  ~r.pseudoconstant =>
                        /\ Occurrences(cs.dev_quals, r.clause)
                             + Occurrences(cs.qual, r.clause) = 1
                        /\ ~r.clause.device_capable =>
                              /\ r.clause \in ExprSet(cs.qual)
                              /\ r.clause \notin ExprSet(cs.kern_source.exprs)
            /\ \A e \in ExprSet(cs.dev_quals) : e.device_capable
            /\ cs.kern_source.exprs = cs.dev_quals
            /\ ExprSet(cs.dev_quals) \cup ExprSet(cs.qual)
                 \subseteq {plan.clauses[i].clause :
                               i \in 1 .. Len(plan.clauses)}

C20_Witness ==
    /\ plan.phase = "planned"
    /\ Len(plan.baserestrictinfo) < Len(plan.clauses)
    /\ plan.cscan.qual # <<>>
    /\ plan.cscan.dev_quals # <<>>
    /\ \E i \in 1 .. Len(plan.clauses) : plan.clauses[i].pseudoconstant
    /\ \E i \in 1 .. Len(plan.clauses) :
          /\ i > Len(plan.baserestrictinfo)
          /\ ~plan.clauses[i].pseudoconstant
          /\ ~plan.clauses[i].clause.device_capable

(* the callback of Task t runs its critical section in this step, and     *)
(* finds the Task not linked into any list                                *)
CbMovesUnlinked(t) ==
    /\ task[t].cb = "locked"
    /\ task'[t].cb = "done"
    /\ ~task[t].chain

(* the host comes to attach a launched Task whose callback has already    *)
(* put it on the completed queue                                          *)
AttachAfterCallback ==
    /\ hostpc = "processed"
    /\ hostpc' = "loop"
    /\ launch
    /\ task[host_task].chain

(* C27: a callback that fires before the host has attached the Task to    *)
(* the running set leaves the running list and the running counter        *)
(* untouched and puts the Task on the completed queue exactly once; the   *)
(* host then does not attach it, so the Task is in the completed queue    *)
(* only and is not counted as running.                                    *)
C27_EarlyCallbackSkipsRunning ==
    [][/\ \A t \in Tasks :
            CbMovesUnlinked(t) =>
               /\ running_tasks' = running_tasks
               /\ num_running_tasks' = num_running_tasks
               /\ SeqCount(completed_tasks, t) = 0
               /\ SeqCount(completed_tasks', t) = 1
               /\ num_completed_tasks' = num_completed_tasks + 1
               /\ task'[t].entered = 1
               /\ t \notin SeqSet(running_tasks')
               /\ t \notin SeqSet(pending_tasks')
       /\ AttachAfterCallback =>
               /\ running_tasks' = running_tasks
               /\ num_running_tasks' = num_running_tasks
               /\ host_task \notin SeqSet(running_tasks')
               /\ host_task \notin SeqSet(pending_tasks')
               /\ completed_tasks' = completed_tasks
               /\ task'[host_task].entered = 1]_vars

C27_Witness ==
    /\ hostpc = "loop"
    /\ \E t \in Tasks :
          /\ task[t].cb = "done"
          /\ ~task[t].cb_dead
          /\ task[t].entered = 1
          /\ Touch(t, "running_tasks", "w") \notin task[t].touch
          /\ <<"running_tasks", "w", FALSE>> \notin task[t].touch
          /\ SeqCount(completed_tasks, t) = 1
          /\ t \notin SeqSet(running_tasks)
          /\ \E u \in Tasks : u # t /\ u \in SeqSet(running_tasks)

(* C30: num_running_tasks is the number of Tasks linked in the running    *)
(* list, num_completed_tasks the number of Tasks linked in the completed  *)
(* queue, and neither counter is negative, in every state the callbacks   *)
(* and the host can reach.                                                *)
C30_CountersMatchLists ==
    /\ num_running_tasks = Len(running_tasks)
    /\ num_completed_tasks = Len(completed_tasks)
    /\ num_running_tasks >= 0
    /\ num_completed_tasks >= 0

(* C28: a Task created for row format without device projection has no    *)
(* destination Chunk; its result rows are the visible rows of the source  *)
(* Chunk, referenced through the result buffer, and gpuscan_next_tuple    *)
(* returns exactly those rows, in order, and then None.                   *)
C28_NoDstDrainsSourceRows ==
    (/\ scan.phase \in {"drain", "crashed"}
     /\ gss.be_row_format
     /\ ~gss.dev_projection)
       => /\ ~scan.curr_task.has_dst
          /\ scan.curr_task.dst = <<>>
          /\ scan.curr_task.kresults = VisibleRows(gss, scan.curr_task.src)
          /\ scan.phase = "drain"
          /\ scan.slot # "fault"
          /\ scan.fetched = SubSeq(scan.curr_task.kresults, 1,
                                   scan.curr_index)
          /\ scan.exhausted =>
                scan.curr_index = Len(scan.curr_task.kresults)

(* C21: a Task is all-visible iff the scan has no device qualifiers; the  *)
(* qualifier kernel is launched iff it has some; when the kernel is       *)
(* skipped every row of the source Chunk is visible to the projection and *)
(* is returned to the Consumer; the qualifier function generated for no   *)
(* device qualifiers returns true.                                        *)
C21_AllVisibleIffNoQuals ==
    /\ gpuscan_codegen_exec_quals(<<>>).eval = "true"
    /\ scan.phase \in {"drain", "crashed"} =>
          LET tsk == scan.curr_task
          IN  /\ tsk.all_visible <=> ~gss.dev_quals
              /\ tsk.quals_launched <=> gss.dev_quals
              /\ ~tsk.quals_launched =>
                    /\ ResultRows(tsk) = tsk.src
                    /\ scan.phase = "drain"
                    /\ scan.fetched = SubSeq(tsk.src, 1, scan.curr_index)
                    /\ scan.exhausted => scan.curr_index = Len(tsk.src)

C22_RegionsInsideAllocation ==
    calc.phase = "allocated" =>
        LET lay == calc.lay
            limit == lay.m_gpuscan + lay.length
        IN  /\ lay.m_gpuscan # 0
            /\ lay.length = GPUMEMALIGN(calc.kern_length)
                            + GPUMEMALIGN(calc.src_length)
                            + (IF calc.has_dst
                               THEN GPUMEMALIGN(calc.dst_length) ELSE 0)
            /\ lay.m_kds_src = lay.m_gpuscan + GPUMEMALIGN(calc.kern_length)
            /\ lay.m_gpuscan + calc.kern_length <= lay.m_kds_src
            /\ lay.m_kds_src + calc.src_length <= limit
            /\ lay.m_kds_dst = 0 <=> ~calc.has_dst
            /\ calc.has_dst =>
                  /\ lay.m_kds_dst
                        = lay.m_kds_src + GPUMEMALIGN(calc.src_length)
                  /\ lay.m_kds_src + calc.src_length <= lay.m_kds_dst
                  /\ lay.m_kds_dst + calc.dst_length <= limit

C22_Witness ==
    /\ calc.phase = "allocated"
    /\ calc.has_dst
    /\ calc.allocs = 2
    /\ GPUMEMALIGN(calc.kern_length) > calc.kern_length
    /\ GPUMEMALIGN(calc.src_length) > calc.src_length
    /\ GPUMEMALIGN(calc.dst_length) = calc.dst_length

(* C23: the destination chunk of a Task is sized with the widths stored in *)
(* the plan: in row format its length is the source length plus            *)
(* max(proj_fixed_width - base_fixed_width, 0) for every source row, in    *)
(* slot format its extra buffer is proj_extra_width for every source row   *)
C23_DstSizedByPlanWidths ==
    (calc.phase = "task" /\ calc.dst.exists) =>
        LET gs_info == deform_gpuscan_info(calc.custom_private)
        IN  IF calc.dst.format = "row"
            THEN calc.dst.length
                   = calc.src_length
                     + Max(gs_info.proj_fixed_width
                             - gs_info.base_fixed_width, 0) * calc.nitems
            ELSE calc.dst.extra = gs_info.proj_extra_width * calc.nitems

(* C29: when a device call of the submission other than the allocation    *)
(* fails (function lookup, event creation, copy, launch, callback          *)
(* registration), the error is re-thrown after the cleanup has freed the   *)
(* Task's device memory and nulled its handles and after the pushed        *)
(* context has been popped exactly once; no callback is registered, and    *)
(* the Task is in no queue the callback feeds                              *)
SubmissionCalls == {"cuModuleGetFunction", "cuEventCreate", "cuEventRecord",
                    "cuMemcpyHtoDAsync", "cuLaunchKernel",
                    "cuMemcpyDtoHAsync", "cuStreamAddCallback"}

StepIndex(steps, name) == {i \in 1 .. Len(steps) : steps[i] = name}

C29_SubmissionErrorCleansUp ==
    (host_task # 0 /\ hist.last_fail \in SubmissionCalls) =>
        /\ hostpc = "error"
        /\ ~launch
        /\ AllHandlesNull(task[host_task])
        /\ TaskHandles(task[host_task], host_task) \cap devmem = {}
        /\ MemHandle(DevPtr(host_task)) \notin devmem
        /\ \A e \in EventNames : EvHandle(host_task, e) \notin devmem
        /\ task[host_task].cb = "none"
        /\ host_task \notin SeqSet(running_tasks)
        /\ host_task \notin SeqSet(completed_tasks)
        /\ Cardinality(StepIndex(hist.steps, "cuCtxPushCurrent")) = 1
        /\ Cardinality(StepIndex(hist.steps, "cuCtxPopCurrent")) = 1
        /\ \A c \in StepIndex(hist.steps, "gpuscan_cleanup_cuda_resources"),
              q \in StepIndex(hist.steps, "cuCtxPopCurrent"),
              e \in StepIndex(hist.steps, "PG_RE_THROW") : c < q /\ q < e
        /\ StepIndex(hist.steps, "gpuscan_cleanup_cuda_resources") # {}
        /\ hist.steps[Len(hist.steps)] = "PG_RE_THROW"

(* a copy into the device fails after the allocation and, with perfmon,    *)
(* after the events were created                                           *)
C29_Witness ==
    /\ host_task # 0
    /\ hostpc = "error"
    /\ hist.last_fail = "cuMemcpyHtoDAsync"
    /\ gss.pfm_enabled
    /\ task[host_task].m_gpuscan = 0
    /\ running_tasks # <<>>

(* C25: with a kernel program that cannot be built, loaded or resolved,    *)
(* handing a Task to the device raises an error, and no Task is ever       *)
(* submitted: no device memory is held for any Task, no copy or kernel     *)
(* launch is enqueued, no callback is registered, no Task is linked into   *)
(* the running or the completed queue                                      *)
C25_UnusableProgramSubmitsNothing ==
    /\ \A t \in Tasks : /\ AllHandlesNull(task[t])
                         /\ task[t].cmds = <<>>
                         /\ task[t].cb = "none"
    /\ devmem = {}
    /\ running_tasks = <<>> /\ completed_tasks = <<>>
    /\ ~launch
    /\ hostpc # "processed"
    /\ hist.last_fail # "none" =>
          /\ hist.last_fail \in {"cuModuleGetFunction",
                                 "pgstrom_load_cuda_program"}
          /\ hist.steps[Len(hist.steps)] \in {"PG_RE_THROW", "elog_ERROR"}
          /\ hostpc \notin {"loop", "popped"}

(* the lookup of an entry function failed for the first Task while a       *)
(* second one was pending                                                  *)
C25_Witness ==
    /\ hostpc = "error"
    /\ hist.last_fail = "cuModuleGetFunction"
    /\ host_task # 0
    /\ pending_tasks # <<>>

(* C24: the sizing pass and the write pass of the generated projection     *)
(* agree: the sizing pass counts, in the same order and under the same     *)
(* null check, every column the write pass stores through vl_buf, with the *)
(* same alignment and length; the sizing pass is in the body whenever a    *)
(* store goes through vl_buf; the bytes reserved for a row are the bytes   *)
(* its stores advance through                                              *)
C24_SizingMatchesWrites ==
    /\ calc.phase \in {"generated", "projected"} =>
          /\ calc.code.sizing = calc.code.slot_write
          /\ (calc.code.slot_write # <<>> \/ calc.code.row_write # <<>>)
                => calc.code.sizing_emitted
    /\ calc.phase = "projected" =>
          /\ calc.vl_len = calc.written
          /\ calc.written <= calc.reserved

(* C31: once gpuscan_rescan has run, every Task it released is cleaned up  *)
(* (no device pointer, event or function handle, nothing of it in device   *)
(* memory) and is in none of the queues of the scan; in particular a       *)
(* callback of a released Task that fires after the rescan links nothing   *)
(* into the completed queue, and the counters restart with the queues      *)
C31_RescanReleasesInFlight ==
    (hist.rescans > 0 /\ hostpc \notin {"rescan", "rescan_locked",
                                        "rescan_release"}) =>
        \A t \in Tasks :
            task[t].mem = "freed" =>
                /\ AllHandlesNull(task[t])
                /\ TaskHandles(task[t], t) \cap devmem = {}
                /\ t \notin SeqSet(pending_tasks)
                /\ t \notin SeqSet(running_tasks)
                /\ t \notin SeqSet(completed_tasks)

(* C32: the copy of the control block back to the host stays inside the    *)
(* host buffer of the Task: the receive length is computed for as many     *)
(* result slots as the buffer was allocated for (none with a destination   *)
(* chunk, else one per source row), with or without device qualifiers      *)
C32_RecvInsideHostTask ==
    calc.phase = "received" =>
        /\ calc.recv_slots = calc.alloc_slots
        /\ calc.recv_slots = (IF calc.has_dst THEN 0 ELSE calc.nitems)
        /\ calc.recv_begin <= calc.recv_end
        /\ calc.recv_end <= calc.host_length

(* a Task with a destination chunk and with device qualifiers, over a      *)
(* source chunk that has rows                                              *)
C32_Witness ==
    /\ calc.phase = "received"
    /\ calc.has_dst
    /\ gss.dev_quals
    /\ calc.nitems = MaxItems
    /\ calc.recv_slots = 0

(* C33: the base_fixed_width stored in the plan is the sum of attlen over  *)
(* all the fixed-length attributes 1..natts of the base relation           *)
RECURSIVE FixedFieldsWidth(_)
FixedFieldsWidth(attrs) ==
    IF attrs = <<>> THEN 0
    ELSE (IF Head(attrs) < 0 THEN 0 ELSE Head(attrs))
         + FixedFieldsWidth(Tail(attrs))

C33_BaseWidthCoversAllAttributes ==
    (calc.phase = "planned" /\ calc.custom_scan_tlist # <<>>) =>
        deform_gpuscan_info(calc.custom_private).base_fixed_width
            = FixedFieldsWidth(calc.tupdesc)

(* C34: gstoreGetForeignRelSize puts every restriction clause into exactly *)
(* one of the two lists of the GpuStoreFdwInfo: the device list holds the  *)
(* clauses that are device-executable and reference no compressed column,  *)
(* the host list holds the others                                          *)
GstoreDeviceQual(rinfo) ==
    pgstrom_device_expression(rinfo.clause) /\ ~rinfo.compressed

GstoreHostQual(rinfo) == ~GstoreDeviceQual(rinfo)

C34_GstoreQualsPartitioned ==
    plan.phase = "sized" =>
        /\ plan.gsf_dev_quals
              = extract_actual_clauses(
                    SelectSeq(plan.baserestrictinfo, GstoreDeviceQual), FALSE)
        /\ plan.gsf_host_quals
              = extract_actual_clauses(
                    SelectSeq(plan.baserestrictinfo, GstoreHostQual), FALSE)

(* C35: when build_device_projection returns false it leaves the target    *)
(* list of the plan, custom_scan_tlist and the stored widths as they were; *)
(* when it returns true every reference in the new target list points at   *)
(* an existing entry of custom_scan_tlist, the one holding the referenced  *)
(* column or expression, and no lookup of a Var fails                      *)
RefsOf(expr) == IF expr.kind = "INDEX_VAR" THEN {expr.varattno} ELSE expr.refs

ExprsOn(tlist) == {tlist[i].expr : i \in 1 .. Len(tlist)}

C36_UniqueInsertion ==
    calc.phase = "insert" =>
      LET stl == calc.scan_tlist
      IN  /\ \A i, j \in 1 .. Len(stl) : stl[i].expr = stl[j].expr => i = j
          /\ \A i \in 1 .. Len(stl) : stl[i].resno = i
          /\ calc.resno # 0 =>
               /\ calc.resno \in 1 .. Len(stl)
               /\ stl[calc.resno].expr = calc.expr
               /\ calc.expr \in ExprsOn(calc.before) => stl = calc.before
               /\ calc.expr \notin ExprsOn(calc.before) =>
                    /\ stl = Append(calc.before,
                                    makeTargetEntry(calc.expr, calc.resno))
                    /\ calc.resno = Len(calc.before) + 1

(* a call with an expression that is on the list, but not at its end *)
C36_Witness ==
    /\ calc.phase = "insert"
    /\ calc.resno # 0
    /\ Len(calc.before) >= 2
    /\ calc.resno < Len(calc.before)
    /\ calc.scan_tlist = calc.before

(* C37: deform_gpuscan_info of what form_gpuscan_info stored gives back    *)
(* the record in every field: the kernel source (NULL included), the extra *)
(* flags, the function definitions, the used parameters, the used          *)
(* variables, the device qualifiers and the three widths                   *)
C37_FormDeformRoundTrip ==
    calc.phase = "deformed" => calc.deformed = calc.gs_info

(* a record with a NULL kernel source, and one whose lists and widths all  *)
(* differ from one another                                                 *)
C37_Witness ==
    /\ calc.phase = "deformed"
    /\ calc.gs_info.kern_source.null
    /\ calc.gs_info.used_vars # calc.gs_info.used_params
    /\ calc.gs_info.dev_quals # NIL
    /\ calc.gs_info.extra_flags # 0
    /\ calc.gs_info.base_fixed_width # 0

(* C38: a GpuScan path carries the bulk-load flag only when no restriction *)
(* clause is host-only and every target entry is a Var or device           *)
(* executable; with a host-only clause or an entry that is neither,        *)
(* gpuscan_try_replace_seqscan returns no plan                             *)
BulkHostOnlyQual ==
    \E i \in 1 .. Len(plan.baserestrictinfo) :
       ~plan.baserestrictinfo[i].clause.device_capable

BulkHostOnlyTarget ==
    \E i \in 1 .. Len(plan.reltargetlist) :
       /\ ~plan.reltargetlist[i].is_var
       /\ ~plan.reltargetlist[i].device_capable

C38_BulkloadOnlyOnDevice ==
    plan.phase = "bulk" =>
      /\ plan.path.bulkload =>
           /\ plan.path.made
           /\ ~BulkHostOnlyQual
           /\ ~BulkHostOnlyTarget
      /\ (BulkHostOnlyQual \/ BulkHostOnlyTarget) =>
           /\ ~plan.path.bulkload
           /\ ~plan.cscan.made
      /\ plan.cscan.made =>
           /\ plan.cscan.bulkload
           /\ plan.cscan.targetlist = plan.reltargetlist

(* both functions have run on a list whose second entry alone is neither a *)
(* Var nor device executable, with device clauses only                     *)
C38_Witness ==
    /\ plan.phase = "bulk"
    /\ plan.path_done
    /\ plan.replace_done
    /\ plan.path.made
    /\ ~plan.path.bulkload
    /\ plan.enabled
    /\ plan.bulkload_enabled
    /\ ~BulkHostOnlyQual
    /\ Len(plan.reltargetlist) = 2
    /\ plan.reltargetlist[1].is_var
    /\ ~plan.reltargetlist[1].device_capable
    /\ ~plan.reltargetlist[2].is_var
    /\ ~plan.reltargetlist[2].device_capable

(* C39: the table options are accepted exactly when the list names only    *)
(* "pinning" and "format", each at most once, "pinning" is there and names *)
(* a device in [0, numDevAttrs) and "format", if there, is "pgstrom" or    *)
(* "default"; a rejected list raises an error and writes no result; a list *)
(* without "format" gets the pgstrom format                                *)
OptionsNamed(options, name) ==
    {i \in 1 .. Len(options) : options[i].defname = name}

(* the decimal numeral of a device number *)
DeviceNumeral(dev) == <<DecimalDigits[dev + 1]>>

NamesDevice(str, numDevAttrs) ==
    \E dev \in 0 .. numDevAttrs - 1 : str = DeviceNumeral(dev)

OptionsWellFormed(options, numDevAttrs) ==
    /\ \A i \in 1 .. Len(options) :
          options[i].defname \in {"pinning", "format"}
    /\ Cardinality(OptionsNamed(options, "pinning")) = 1
    /\ Cardinality(OptionsNamed(options, "format")) <= 1
    /\ \A i \in OptionsNamed(options, "pinning") :
          NamesDevice(options[i].arg, numDevAttrs)
    /\ \A i \in OptionsNamed(options, "format") :
          options[i].arg \in {StrPgstrom, StrDefault}

C39_TableOptionsValidated ==
    calc.phase = "checked" =>
      /\ (calc.result.error = "none")
            <=> OptionsWellFormed(calc.options, calc.numDevAttrs)
      /\ calc.result.error # "none" =>
            /\ ~calc.result.wrote_pinning
            /\ ~calc.result.wrote_format
      /\ (calc.result.error = "none" /\ calc.caller = "table_options") =>
            /\ calc.result.wrote_pinning
            /\ calc.result.wrote_format
            /\ \A i \in OptionsNamed(calc.options, "pinning") :
                  calc.result.pinning = atoi(calc.options[i].arg)
            /\ calc.result.format = GSTORE_FDW_FORMAT__PGSTROM

====
